---- MODULE Spec2Model ----
(***************************************************************************)
(* Floor-plan layout engine of the printing-service demo                   *)
(* (scripts/maps/floor_generator.py, generate_floor_svg).                  *)
(*                                                                         *)
(* Representation.                                                         *)
(*  - A Python dict is a function whose DOMAIN is the set of present keys; *)
(*    d.get(k, default) is Get(d, k, default).                             *)
(*  - A Python str is a sequence of one-character strings, so that len,    *)
(*    split, join and escape are computed and not assumed.                 *)
(*  - Vertical and horizontal text coordinates are floats that are always  *)
(*    a multiple of 1/2 (x + w/2, font/2, ...); they are stored doubled in *)
(*    fields whose name ends in 2.                                         *)
(*  - Printer positions are room origin + fraction * size; fractions are   *)
(*    given in hundredths and positions are stored times 100 (suffix 100). *)
(***************************************************************************)
EXTENDS Integers, Sequences, FiniteSets, TLC

(***************************************************************************)
(* Bounds of the model                                                     *)
(***************************************************************************)
MaxGridW == 32
MaxGridH == 32
MaxRooms == 2
MaxCols == 16
MaxRows == 12
MaxCalls == 2

(***************************************************************************)
(* Arithmetic helpers                                                      *)
(***************************************************************************)
Abs(n) == IF n < 0 THEN -n ELSE n

Max(a, b) == IF a >= b THEN a ELSE b

Min(a, b) == IF a <= b THEN a ELSE b

\* Python int(a / b) for integers a, b (b # 0): truncation toward zero.
Trunc(a, b) == IF (a >= 0) = (b > 0) THEN Abs(a) \div Abs(b) ELSE -(Abs(a) \div Abs(b))

RECURSIVE Gcd(_, _)
Gcd(a, b) == IF b = 0 THEN a ELSE Gcd(b, a % b)

\* dict.get(key, default)
Get(d, k, default) == IF k \in DOMAIN d THEN d[k] ELSE default

Range(s) == {s[i] : i \in 1..Len(s)}

(***************************************************************************)
(* Strings                                                                 *)
(***************************************************************************)
EmptyLabel == <<>>
BlankLabel == <<" ">>
Lab == <<"L", "a", "b">>
Mens == <<"M", "e", "n", "'", "s">>
RnD == <<"R", "&", "D">>
Laboratory == <<"L", "a", "b", "o", "r", "a", "t", "o", "r", "y">>
ComputerLab == <<"C", "o", "m", "p", "u", "t", "e", "r", " ", "L", "a", "b">>
AdministrativeOffice == <<"A", "d", "m", "i", "n", "i", "s", "t", "r", "a", "t", "i", "v", "e", " ", "O", "f", "f", "i", "c", "e">>
MainLectureHall == <<"M", "a", "i", "n", " ", "L", "e", "c", "t", "u", "r", "e", " ", "H", "a", "l", "l">>
FourWords == <<"L", "a", "b", " ", "A", " ", "B", " ", "C">>
FourLong == <<"D", "a", "t", "a", " ", "L", "a", "b", " ", "R", "o", "o", "m", " ", "F", "o", "u", "r">>
FiveWords == <<"a", " ", "b", " ", "c", " ", "d", " ", "e">>
SixWords == <<"B", "i", "g", " ", "L", "a", "b", " ", "a", " ", "b", " ", "c", " ", "d">>
SevenWords == <<"a", " ", "b", " ", "c", " ", "d", " ", "e", " ", "f", " ", "g">>
NineWords == <<"a", " ", "b", " ", "c", " ", "d", " ", "e", " ", "f", " ", "g", " ", "h", " ", "i">>

Labels == {EmptyLabel, BlankLabel, Lab, Mens, RnD, Laboratory, ComputerLab,
           AdministrativeOffice, MainLectureHall, FourWords, FourLong,
           FiveWords, SixWords, SevenWords, NineWords}

\* str.split(): the maximal runs of non-whitespace characters, in order.
RECURSIVE SplitFrom(_, _, _)
SplitFrom(s, i, cur) ==
    IF i > Len(s) THEN (IF cur = <<>> THEN <<>> ELSE <<cur>>)
    ELSE IF s[i] = " "
         THEN (IF cur = <<>> THEN <<>> ELSE <<cur>>) \o SplitFrom(s, i + 1, <<>>)
         ELSE SplitFrom(s, i + 1, Append(cur, s[i]))

split(s) == SplitFrom(s, 1, <<>>)

\* ' '.join(words)
RECURSIVE join(_)
join(words) ==
    IF words = <<>> THEN <<>>
    ELSE IF Len(words) = 1 THEN words[1]
    ELSE words[1] \o <<" ">> \o join(Tail(words))

\* xml.sax.saxutils.escape: & < > become entities.
RECURSIVE escape(_)
escape(s) ==
    IF s = <<>> THEN <<>>
    ELSE (CASE Head(s) = "&" -> <<"&", "a", "m", "p", ";">>
            [] Head(s) = "<" -> <<"&", "l", "t", ";">>
            [] Head(s) = ">" -> <<"&", "g", "t", ";">>
            [] OTHER -> <<Head(s)>>) \o escape(Tail(s))

\* words[a:b] on a Python list (0-based, end-exclusive).
Slice(words, a, b) == SubSeq(words, a + 1, b)

RECURSIVE MaxWordLen(_)
MaxWordLen(words) ==
    IF words = <<>> THEN 0 ELSE Max(Len(Head(words)), MaxWordLen(Tail(words)))

(***************************************************************************)
(* Static tables                                                           *)
(***************************************************************************)
ROOM_COLORS ==
    [lab |-> "#FF9800", classroom |-> "#2196F3", office |-> "#F44336",
     library |-> "#9C27B0", corridor |-> "#E0E0E0", restroom |-> "#4CAF50",
     stairs |-> "#9E9E9E", elevator |-> "#607D8B", storage |-> "#757575",
     lounge |-> "#00BCD4"]

ROOM_TYPE_NAMES ==
    [lab |-> "Computer Lab", classroom |-> "Lecture Hall", office |-> "Faculty Office",
     library |-> "Library", corridor |-> "Corridor", restroom |-> "Restroom",
     stairs |-> "Stairs", elevator |-> "Elevator", storage |-> "Storage",
     lounge |-> "Lounge"]

legend_order ==
    <<"lab", "classroom", "office", "library", "lounge", "restroom", "stairs",
      "elevator", "storage", "corridor">>

OUTPUT_WIDTH == 2400
TITLE_HEIGHT == 100
LEGEND_COLS == 3
LEGEND_ITEM_HEIGHT == 65

get_room_color(room_type) == Get(ROOM_COLORS, room_type, "#FFFFFF")

get_text_color(room_type) ==
    IF room_type \in {"corridor", "lounge"} THEN "#1a1a1a" ELSE "white"

(***************************************************************************)
(* Output primitives                                                       *)
(***************************************************************************)
Rect(x, y, w, h, fill) ==
    [kind |-> "rect", x2 |-> 2 * x, y2 |-> 2 * y, w |-> w, h |-> h, fill |-> fill,
     font |-> 0, rotated |-> FALSE, text |-> <<>>, lines |-> <<>>]

Text(x2, y2, font, fill, rotated, text) ==
    [kind |-> "text", x2 |-> x2, y2 |-> y2, w |-> 0, h |-> 0, fill |-> fill,
     font |-> font, rotated |-> rotated, text |-> text, lines |-> <<>>]

Group(lines) ==
    [kind |-> "g", x2 |-> 0, y2 |-> 0, w |-> 0, h |-> 0, fill |-> "",
     font |-> 0, rotated |-> FALSE, text |-> <<>>, lines |-> lines]

(***************************************************************************)
(* Room renderer                                                           *)
(***************************************************************************)
\* Variant: rotates when either condition holds.
should_rotate_text_or(label, w, h) ==
    IF label = <<>> THEN FALSE
    ELSE (~((MaxWordLen(split(label)) * 20) < (w - 40))) \/ h > w

\* Variant: rotates every label of a room taller than wide.
should_rotate_text_tall(label, w, h) ==
    IF label = <<>> THEN FALSE ELSE h > w

should_rotate_text(label, w, h) ==
    IF label = <<>> THEN FALSE
    ELSE LET words == split(label)
             max_word_len == MaxWordLen(words)
             can_fit_horizontal == (max_word_len * 20) < (w - 40)
         IN  (~can_fit_horizontal) /\ h > w

\* Variant: two words that fit one by one are kept on one line.
PlanLines_joined(words, available_width, estimated_width) ==
    IF Len(words) = 2
    THEN IF Len(words[1]) * 20 > available_width \/ Len(words[2]) * 20 > available_width
         THEN << <<words[1]>>, <<words[2]>> >>
         ELSE << <<words[1], words[2]>> >>
    ELSE << words >>

\* Variant: four words are always split into two pairs.
PlanLines_pairs(words, available_width, estimated_width) ==
    LET n == Len(words) IN
    IF n = 4 THEN << <<words[1], words[2]>>, <<words[3], words[4]>> >>
    ELSE IF n <= 3 THEN [j \in 1..n |-> <<words[j]>>]
    ELSE IF n <= 6 THEN << Slice(words, 0, n \div 3), Slice(words, n \div 3, 2 * (n \div 3)),
                           Slice(words, 2 * (n \div 3), n) >>
    ELSE << Slice(words, 0, n \div 4), Slice(words, n \div 4, 2 * (n \div 4)),
            Slice(words, 2 * (n \div 4), 3 * (n \div 4)), Slice(words, 3 * (n \div 4), n) >>

\* The planned lines of the multi-line layout, each a list of words.
PlanLines(words, available_width, estimated_width) ==
    LET n == Len(words) IN
    IF n = 2 THEN
        IF Len(words[1]) * 20 > available_width \/ Len(words[2]) * 20 > available_width
        THEN << <<words[1]>>, <<words[2]>> >>
        ELSE IF estimated_width > available_width
             THEN << <<words[1]>>, <<words[2]>> >>
             ELSE << <<words[1], words[2]>> >>
    ELSE IF n = 3 THEN << <<words[1]>>, <<words[2]>>, <<words[3]>> >>
    ELSE IF n = 4 THEN
        IF /\ Len(join(<<words[1], words[2]>>)) * 20 <= available_width
           /\ Len(join(<<words[3], words[4]>>)) * 20 <= available_width
        THEN << <<words[1], words[2]>>, <<words[3], words[4]>> >>
        ELSE << <<words[1]>>, <<words[2], words[3]>>, <<words[4]>> >>
    ELSE IF n <= 6 THEN
        LET mid == n \div 2
            third == n \div 3
        IN  IF /\ Len(join(Slice(words, 0, mid))) * 20 <= available_width
               /\ Len(join(Slice(words, mid, n))) * 20 <= available_width
            THEN << Slice(words, 0, mid), Slice(words, mid, n) >>
            ELSE << Slice(words, 0, third), Slice(words, third, 2 * third),
                    Slice(words, 2 * third, n) >>
    ELSE
        LET quarter == n \div 4
        IN  IF quarter > 0
            THEN << Slice(words, 0, quarter), Slice(words, quarter, 2 * quarter),
                    Slice(words, 2 * quarter, 3 * quarter), Slice(words, 3 * quarter, n) >>
            ELSE << words >>

\* Variant: the reduced font has no lower bound.
MultiLineFont_nofloor(num_lines, h) ==
    IF (num_lines - 1) * 45 + 40 > h - 40
    THEN Trunc(h - 40 - (num_lines - 1) * 45, num_lines)
    ELSE 40

\* Font size of the multi-line layout for num_lines lines in a room of height h.
MultiLineFont(num_lines, h) ==
    LET total_height == (num_lines - 1) * 45
        available_height == h - 20 - 20
    IN  IF total_height + 40 > available_height
        THEN Max(24, Trunc(available_height - total_height, num_lines))
        ELSE 40

MultiLineHeight(num_lines, h) ==
    LET total_height == (num_lines - 1) * 45
        available_height == h - 20 - 20
    IN  IF total_height + 40 > available_height
        THEN MultiLineFont(num_lines, h) + 5
        ELSE 45

\* Doubled y of the first line.
MultiLineStartY2(num_lines, y, h) ==
    LET font_size == MultiLineFont(num_lines, h)
        line_height == MultiLineHeight(num_lines, h)
        available_height == h - 20 - 20
        total_height == (num_lines - 1) * line_height
    IN  IF total_height < available_height
        THEN 2 * (y + 20) + (available_height - total_height) + font_size
        ELSE 2 * (y + 20) + font_size

\* The lines emitted by the loop of lines 247-258: it stops at the first line
\* whose lower edge would pass the bottom margin.
\* Variant: every planned line is emitted.
EmitLines_all(lines, i, start_y2, line_height, font_size, bottom2, cx2, fill) ==
    [j \in 1..(Len(lines) - i + 1) |->
        Text(cx2, start_y2 + 2 * (i + j - 2) * line_height, font_size, fill, FALSE,
             escape(join(lines[i + j - 1])))]

RECURSIVE EmitLines(_, _, _, _, _, _, _, _)
EmitLines(lines, i, start_y2, line_height, font_size, bottom2, cx2, fill) ==
    IF i > Len(lines) THEN <<>>
    ELSE LET y_pos2 == start_y2 + 2 * (i - 1) * line_height
         IN  IF y_pos2 + font_size > bottom2 THEN <<>>
             ELSE <<Text(cx2, y_pos2, font_size, fill, FALSE, escape(join(lines[i])))>>
                  \o EmitLines(lines, i + 1, start_y2, line_height, font_size, bottom2, cx2, fill)

multi_line_label(r) ==
    LET words == split(r.label)
        lines == PlanLines(words, r.w - 80, Len(r.label) * 20)
        num_lines == Len(lines)
    IN  Group(EmitLines(lines, 1, MultiLineStartY2(num_lines, r.y, r.h),
                        MultiLineHeight(num_lines, r.h), MultiLineFont(num_lines, r.h),
                        2 * (r.y + r.h - 20), 2 * r.x + r.w, get_text_color(r.type)))

\* int(max_font_width / (len(label) * 0.6)) and int(max_font_height * 0.8):
\* the double results truncate to the same integers as 5*mfw/(3*len) and
\* 4*mfh/5 for every |mfw|, |mfh| < 2000 and len < 60.
SingleLineFont(label, w, h) ==
    LET max_font_width == w - 40
        max_font_height == h - 40
        by_width == Trunc(5 * max_font_width, 3 * Len(label))
        by_height == Trunc(4 * max_font_height, 5)
    IN  IF w < 150 \/ h < 150
        THEN LET adjusted == Min(40, Min(by_width, by_height))
             IN  IF adjusted < 20 THEN 20 ELSE adjusted
        ELSE LET adjusted == IF Len(label) * 24 > max_font_width THEN by_width ELSE 40
             IN  IF adjusted > max_font_height THEN by_height ELSE adjusted

\* Variant: only the upper margin is enforced.
SingleLineY2_top(font, y, h) ==
    IF 2 * y + h - font < 2 * (y + 20) THEN 2 * (y + 20) + font ELSE 2 * y + h

SingleLineY2(font, y, h) ==
    LET cy2 == 2 * y + h
        t1 == IF cy2 - font < 2 * (y + 20) THEN 2 * (y + 20) + font ELSE cy2
    IN  IF t1 + font > 2 * (y + h - 20) THEN 2 * (y + h - 20) - font ELSE t1

single_line_label(r) ==
    LET font == SingleLineFont(r.label, r.w, r.h)
    IN  Text(2 * r.x + r.w, SingleLineY2(font, r.y, r.h), font,
             get_text_color(r.type), FALSE, escape(r.label))

rotated_label(r) ==
    Text(2 * r.x + r.w, 2 * r.y + r.h, 40, get_text_color(r.type), TRUE, escape(r.label))

\* Variant: wrapping is tried before rotating.
Layout_wrapfirst(r) ==
    IF Len(r.label) * 20 > r.w - 80 /\ Len(split(r.label)) > 1 THEN "multi"
    ELSE IF should_rotate_text(r.label, r.w, r.h) THEN "rotated"
    ELSE "single"

\* "rotated", "multi" or "single": the branch of lines 166/175/260.
Layout(r) ==
    IF should_rotate_text(r.label, r.w, r.h) THEN "rotated"
    ELSE IF Len(r.label) * 20 > r.w - 80 /\ Len(split(r.label)) > 1 THEN "multi"
    ELSE "single"

room_label(r) ==
    CASE Layout(r) = "rotated" -> rotated_label(r)
      [] Layout(r) = "multi" -> multi_line_label(r)
      [] OTHER -> single_line_label(r)

\* Variant: a room without area is not drawn.
RoomElems_area(r) ==
    IF r.w = 0 \/ r.h = 0 THEN <<>>
    ELSE IF r.label = <<>>
    THEN <<Rect(r.x, r.y, r.w, r.h, get_room_color(r.type))>>
    ELSE <<Rect(r.x, r.y, r.w, r.h, get_room_color(r.type)), room_label(r)>>

\* What one iteration of the room loop appends to room_elems.
RoomElems(r) ==
    IF r.label = <<>>
    THEN <<Rect(r.x, r.y, r.w, r.h, get_room_color(r.type))>>
    ELSE <<Rect(r.x, r.y, r.w, r.h, get_room_color(r.type)), room_label(r)>>

(***************************************************************************)
(* Printer renderer                                                        *)
(***************************************************************************)
\* room_by_id.get(id): the sequence holds the dict's values in insertion order.
RoomsWithId(rbi, id) == {j \in 1..Len(rbi) : rbi[j].id = id}

\* Variant: a printer whose room is unknown is put into the first room.
printer_pos_first(rbi, p) ==
    LET room == IF RoomsWithId(rbi, p.room) = {} THEN rbi[1]
                ELSE rbi[CHOOSE j \in RoomsWithId(rbi, p.room) : TRUE]
    IN  [x100 |-> 100 * room.x + Get(p, "grid_rx", 50) * room.w,
         y100 |-> 100 * room.y + Get(p, "grid_ry", 50) * room.h]

\* Variant: a fraction of 0 is replaced by the default like an absent one.
printer_pos_falsy(rbi, p) ==
    IF RoomsWithId(rbi, p.room) = {}
    THEN [x100 |-> 0, y100 |-> 0]
    ELSE LET room == rbi[CHOOSE j \in RoomsWithId(rbi, p.room) : TRUE]
             rx == IF Get(p, "grid_rx", 50) = 0 THEN 50 ELSE Get(p, "grid_rx", 50)
             ry == IF Get(p, "grid_ry", 50) = 0 THEN 50 ELSE Get(p, "grid_ry", 50)
         IN  [x100 |-> 100 * room.x + rx * room.w, y100 |-> 100 * room.y + ry * room.h]

printer_pos(rbi, p) ==
    IF RoomsWithId(rbi, p.room) = {}
    THEN [x100 |-> 0, y100 |-> 0]
    ELSE LET room == rbi[CHOOSE j \in RoomsWithId(rbi, p.room) : TRUE]
             rx == Get(p, "grid_rx", 50)
             ry == Get(p, "grid_ry", 50)
         IN  [x100 |-> 100 * room.x + rx * room.w, y100 |-> 100 * room.y + ry * room.h]

\* One 50x50 icon (body, tray, slot, two lines) and its caption 45 px below,
\* all placed relative to pos.
PrinterElem(rbi, p) ==
    LET pos == printer_pos(rbi, p)
    IN  [kind |-> "printer", id |-> p.id, x100 |-> pos.x100, y100 |-> pos.y100,
         body_x100 |-> pos.x100 - 2500, body_y100 |-> pos.y100 - 2500,
         caption_y100 |-> pos.y100 + 4500, caption |-> escape(Get(p, "label", p.id))]

(***************************************************************************)
(* Title and legend composer                                               *)
(***************************************************************************)
RECURSIVE Digits(_)
Digits(n) ==
    LET d == <<"0", "1", "2", "3", "4", "5", "6", "7", "8", "9">>
    IN  IF n < 10 THEN <<d[n + 1]>> ELSE Digits(n \div 10) \o <<d[(n % 10) + 1]>>

\* f"{n}" for an int
IntStr(n) == IF n < 0 THEN <<"-">> \o Digits(-n) ELSE Digits(n)

\* Variant: the suffix follows the last digit only.
get_ordinal_lastdigit(n) ==
    IntStr(n) \o (CASE n % 10 = 1 -> <<"s", "t">>
                    [] n % 10 = 2 -> <<"n", "d">>
                    [] n % 10 = 3 -> <<"r", "d">>
                    [] OTHER -> <<"t", "h">>)

get_ordinal(n) ==
    LET suffix == IF 10 <= n % 100 /\ n % 100 <= 20 THEN <<"t", "h">>
                  ELSE CASE n % 10 = 1 -> <<"s", "t">>
                         [] n % 10 = 2 -> <<"n", "d">>
                         [] n % 10 = 3 -> <<"r", "d">>
                         [] OTHER -> <<"t", "h">>
    IN  IntStr(n) \o suffix

TitleElem(name, n, w, h) ==
    [kind |-> "title", x6 |-> 3 * w, y |-> h + 50, type |-> "", fill |-> "#1a1a1a", name |-> "",
     text |-> escape(name \o <<" ", "-", " ">> \o get_ordinal(n)
                          \o <<" ", "F", "l", "o", "o", "r">>)]

\* The coloured square and the display name of entry number k (0-based);
\* square_x = col * W/3 + W/6 - 110 is kept times 6.
LegendElem(room_type, k, w, h) ==
    LET row == k \div LEGEND_COLS
        col == k % LEGEND_COLS
    IN  [kind |-> "legend", x6 |-> 2 * col * w + w - 660,
         y |-> h + TITLE_HEIGHT + 40 + row * LEGEND_ITEM_HEIGHT,
         type |-> room_type, fill |-> Get(ROOM_COLORS, room_type, "#FFFFFF"),
         name |-> Get(ROOM_TYPE_NAMES, room_type, room_type), text |-> <<>>]

\* set of the types of the rooms list that have a colour
UniqueRoomTypes(rooms) ==
    {t \in {Get(rooms[j], "type", "corridor") : j \in 1..Len(rooms)} : t \in DOMAIN ROOM_COLORS}

\* Variant: every type of the order gets an entry.
FilterOrder_all(order, types) == order

\* [t for t in legend_order if t in unique_room_types]
RECURSIVE FilterOrder(_, _)
FilterOrder(order, types) ==
    IF order = <<>> THEN <<>>
    ELSE (IF Head(order) \in types THEN <<Head(order)>> ELSE <<>>)
         \o FilterOrder(Tail(order), types)

SortedTypes(rooms) == FilterOrder(legend_order, UniqueRoomTypes(rooms))

LegendHeight(n) == ((n + LEGEND_COLS - 1) \div LEGEND_COLS) * LEGEND_ITEM_HEIGHT + 40

(***************************************************************************)
(* Canvas arithmetic                                                       *)
(***************************************************************************)
\* Reduced triples <<output_width, a, b>> for which the double expression
\* output_width * (a / b) evaluates just below its exact integer value, so
\* that int() yields one less (e.g. 2400 * (11 / 15) = 1759.9999999999998).
\* Complete for output_width in {2400, 1000} and a, b <= 4000 of the forms
\* k, 10k, 100k (k <= 40) and a in {140, 205, 270, 335, 400, 500}, and for
\* the ratios total_height / W and out_h / output_width of every grid of
\* up to 17 x 13 cells of 1 or 100 px, either sign, with zero to four
\* legend rows.
RoundsBelow ==
    {<<1000, 201, 100>>, <<1000, 201, 200>>, <<2400, 11, 15>>, <<2400, 11, 30>>,
     <<2400, 11, 60>>, <<2400, 11, 120>>, <<2400, 11, 240>>, <<2400, 22, 15>>,
     <<2400, 41, 50>>, <<2400, 41, 100>>, <<2400, 41, 200>>, <<2400, 41, 400>>,
     <<2400, 41, 800>>, <<2400, 57, 25>>, <<2400, 57, 50>>, <<2400, 57, 100>>,
     <<2400, 57, 400>>, <<2400, 69, 100>>, <<2400, 69, 800>>, <<2400, 97, 150>>,
     <<2400, 97, 600>>, <<2400, 97, 1200>>, <<2400, 113, 800>>, <<2400, 146, 15>>,
     <<2400, 161, 60>>, <<2400, 161, 120>>, <<2400, 161, 240>>, <<2400, 161, 480>>,
     <<2400, 201, 100>>, <<2400, 201, 200>>, <<2400, 247, 60>>, <<2400, 247, 120>>,
     <<2400, 247, 240>>, <<2400, 247, 480>>, <<2400, 277, 15>>, <<2400, 301, 100>>,
     <<2400, 301, 200>>, <<2400, 307, 60>>, <<2400, 307, 120>>, <<2400, 307, 240>>,
     <<2400, 307, 480>>, <<2400, 337, 15>>, <<2400, 391, 2400>>}

\* int(output_width * (a / b)) in double arithmetic, b # 0.
FloatScale(ow, a, b) ==
    LET g == Gcd(Abs(a), Abs(b))
        exact == Trunc(ow * a, b)
    IN  IF <<Abs(ow), Abs(a) \div g, Abs(b) \div g>> \in RoundsBelow
        THEN (IF exact > 0 THEN exact - 1 ELSE exact + 1)
        ELSE exact

(***************************************************************************)
(* State                                                                   *)
(***************************************************************************)
VARIABLES
    spec, output_width, include_printers, building_name, floor_number,
    pc, i, W, H, diagram_height, out_h, room_by_id,
    room_elems, printer_elems, title_legend_elems, sorted_types,
    total_height, lines, font_size, line_height, svg, returned, calls

args == <<spec, output_width, include_printers, building_name, floor_number>>

locals == <<W, H, diagram_height, out_h, room_by_id, room_elems, printer_elems,
            title_legend_elems, sorted_types, total_height, lines, font_size,
            line_height>>

\* svg_to_png: its position, its arguments (the content as its regular
\* expressions see it, the target width), the derived raster height, the size
\* of the file at output_path (-1: no file), the backends tried so far with
\* their outcome, and the returned value.
VARIABLES png_pc, svg_content, width, exact_height, output_file, attempts, result

png == <<png_pc, svg_content, width, exact_height, output_file, attempts, result>>

\* The floor diagram generator and rasterizer together.
floor_all == <<args, pc, i, locals, svg, returned, calls, png>>

\* generate.py: the position in generate_printer_infrastructure, the sizes
\* of its input (floors, rooms taken from the templates, printers placed)
\* and the room names in use, its three BulkInsertHelper objects and
\* self.sql_statements; then one BulkInsertHelper used on its own: the rows
\* added so far and what each get_statements call returned.
VARIABLES sql_pc, sql_i, n_floors, n_rooms, n_printers, name_pool,
          bulk_floors, bulk_rooms, bulk_printers, sql_statements,
          bulk_pc, helper, added, got

sqlv == <<sql_pc, sql_i, n_floors, n_rooms, n_printers, name_pool,
          bulk_floors, bulk_rooms, bulk_printers, sql_statements,
          bulk_pc, helper, added, got>>

\* generate_floor_diagram as generate_printer_infrastructure calls it (once
\* without and once with printers) and the printer coordinates computed
\* afterwards: the template read from template_path, the room_mapping
\* argument, the rooms left by the restroom filter, the scale stored in the
\* floor record (<<>> : none, else <<OUTPUT_WIDTH, svg_width>> for their
\* quotient), the index of the printer loop and the coordinates produced.
VARIABLES diag_pc, template, room_mapping, filtered_rooms, grid_to_pixel_scale,
          printer_i, pixel_coordinate

diag == <<diag_pc, template, room_mapping, filtered_rooms, grid_to_pixel_scale,
          printer_i, pixel_coordinate>>

\* execute_sql_file: the position, the statements of the file (each is what
\* the database does with it), the verbose flag, the loop index, the
\* summary, the calls received by the database driver so far, the state of
\* connection and cursor, and the exception that left the try block.
VARIABLES exec_pc, statements, verbose, stmt_i, results_summary, driver,
          conn_open, cursor_open, exception

execv == <<exec_pc, statements, verbose, stmt_i, results_summary, driver,
           conn_open, cursor_open, exception>>

\* fix_diagram_dimensions: the position, the loop variable, the text of the
\* .puml file and the text it had at the call, the renders requested so far
\* with what came back, the image saved last and the returned value.
VARIABLES fix_pc, iteration, puml_file, original, rendered, png_file, fix_result

fixv == <<fix_pc, iteration, puml_file, original, rendered, png_file, fix_result>>

\* determine_table_levels and generate_plantuml: the position, the tables
\* and relationships read from the schema, the locals levels, processed and
\* changed, and the classes in the order in which they are emitted.
VARIABLES viz_pc, tables, relationships, levels, processed, changed, emitted

vizv == <<viz_pc, tables, relationships, levels, processed, changed, emitted>>

\* What each program other than the floor diagram generator leaves alone.
not_sql == <<diag, execv, fixv, vizv>>

not_diag == <<sqlv, execv, fixv, vizv>>

not_exec == <<sqlv, diag, fixv, vizv>>

not_fix == <<sqlv, diag, execv, vizv>>

not_viz == <<sqlv, diag, execv, fixv>>

\* The programs other than the floor diagram generator.
rest == <<sqlv, diag, execv, fixv, vizv>>

vars == <<floor_all, rest>>

GRID_SIZE == Get(spec, "grid_size", 100)
GRID_COLS == Get(spec, "grid_cols", 24)
GRID_ROWS == Get(spec, "grid_rows", 14)

rooms == Get(spec, "rooms", <<>>)
printers == IF include_printers THEN Get(spec, "printers", <<>>) ELSE <<>>

RoomData(r) ==
    [id |-> r.id, x |-> r.grid_x * GRID_SIZE, y |-> r.grid_y * GRID_SIZE,
     w |-> r.grid_w * GRID_SIZE, h |-> r.grid_h * GRID_SIZE,
     label |-> Get(r, "label", <<>>), type |-> Get(r, "type", "corridor")]

\* room_by_id[r['id']] = room_data: a repeated id overwrites the value and
\* keeps the position of the first insertion.
RECURSIVE BuildRoomById(_, _)
BuildRoomById(rs, acc) ==
    IF rs = <<>> THEN acc
    ELSE LET d == RoomData(Head(rs))
             at == RoomsWithId(acc, d.id)
         IN  BuildRoomById(Tail(rs),
                 IF at = {} THEN Append(acc, d)
                 ELSE [acc EXCEPT ![CHOOSE j \in at : TRUE] = d])

\* where control goes once the room loop (from = "rooms") or the printer
\* loop (from = "printers") has no element left
AfterLoop(from) ==
    IF from = "rooms" /\ Len(printers) > 0 THEN "printers" ELSE "title"

(***************************************************************************)
(* Inputs                                                                  *)
(***************************************************************************)
Call(sp, ow, ip, bn, fn) ==
    [spec |-> sp, output_width |-> ow, include_printers |-> ip,
     building_name |-> bn, floor_number |-> fn]

RoomIds == <<"r1", "r2", "r3", "r4", "r5", "r6", "r7", "r8", "r9", "r10", "r11", "r12">>

\* A unit room of the given type ("" : the type key is absent).
TypedRoom(k, t) ==
    IF t = ""
    THEN [id |-> RoomIds[k], grid_x |-> k - 1, grid_y |-> 0, grid_w |-> 1, grid_h |-> 1,
          label |-> Lab]
    ELSE [id |-> RoomIds[k], grid_x |-> k - 1, grid_y |-> 0, grid_w |-> 1, grid_h |-> 1,
          label |-> Lab, type |-> t]

TypedRooms(ts) == [k \in 1..Len(ts) |-> TypedRoom(k, ts[k])]

RoomTypes == {"lab", "classroom", "office", "library", "corridor", "restroom",
              "stairs", "elevator", "storage", "lounge", "gym", ""}

SevenTypes == <<"stairs", "lab", "office", "lab", "corridor", "lounge", "restroom", "library">>
TenTypes == <<"corridor", "storage", "elevator", "stairs", "restroom", "lounge",
              "library", "office", "classroom", "lab">>
FourTypes == <<"office", "gym", "lab", "", "storage", "lab">>

TypeLists ==
    UNION {[1..n -> RoomTypes] : n \in 0..MaxRooms} \cup {FourTypes, SevenTypes, TenTypes}

\* One labelled room on a 40 x 40 grid of 10 px cells: every width, height
\* and label of the pool.
LayoutInput(gy, gw, gh, l, t) ==
    Call([grid_size |-> 10, grid_cols |-> 40, grid_rows |-> 40,
          rooms |-> << [id |-> "r1", grid_x |-> 0, grid_y |-> gy, grid_w |-> gw,
                        grid_h |-> gh, label |-> l, type |-> t] >>],
         OUTPUT_WIDTH, FALSE, <<>>, 0)

\* Every list of room types of the pool on the default grid.
LegendInput(ts) == Call([rooms |-> TypedRooms(ts)], OUTPUT_WIDTH, FALSE, <<>>, 0)

GridSizes == {-1, 0, 1, 100}

\* Grid configurations, zero and negative ones included, for zero to four
\* legend rows and two output widths.
GridInput(gs, gc, gr, ts, ow) ==
    Call([grid_size |-> gs, grid_cols |-> gc, grid_rows |-> gr, rooms |-> TypedRooms(ts)],
         ow, FALSE, <<>>, 0)

PrinterRx == {-1, 0, 25}
PrinterRy == {-1, 100}

\* A printer in room rm (-1 : the fraction key is absent).
PrinterSpec(k, rm, rx, ry) ==
    LET base == [id |-> <<"P", Digits(k)[1]>>, room |-> rm]
        withx == IF rx < 0 THEN base ELSE [f \in DOMAIN base \cup {"grid_rx"} |->
                                             IF f = "grid_rx" THEN rx ELSE base[f]]
    IN  IF ry < 0 THEN withx ELSE [f \in DOMAIN withx \cup {"grid_ry"} |->
                                      IF f = "grid_ry" THEN ry ELSE withx[f]]

MaxPrinters == 2

PrinterLists ==
    UNION {{[k \in 1..n |-> PrinterSpec(k, f[k][1], f[k][2], f[k][3])] :
               f \in [1..n -> {"r1", "r2", "nowhere"} \X PrinterRx \X PrinterRy]} :
           n \in 0..MaxPrinters}

TwoRooms ==
    << [id |-> "r1", grid_x |-> 1, grid_y |-> 2, grid_w |-> 4, grid_h |-> 2,
        label |-> ComputerLab, type |-> "lab"],
       [id |-> "r2", grid_x |-> 5, grid_y |-> 2, grid_w |-> 2, grid_h |-> 3,
        type |-> "corridor"] >>

PrinterInput(ps, ip) == Call([rooms |-> TwoRooms, printers |-> ps], OUTPUT_WIDTH, ip, <<>>, 0)

MaxFloor == 123

TitleInput(bn, fn) == Call([rooms |-> TwoRooms], OUTPUT_WIDTH, FALSE, bn, fn)

\* The inputs of the repeated-call specification.
CallInputs ==
    {Call([rooms |-> TwoRooms, printers |-> ps], OUTPUT_WIDTH, ip, bn, 2) :
        ps \in {<<>>, <<PrinterSpec(1, "r1", 25, -1)>>}, ip \in BOOLEAN,
        bn \in {<<>>, Lab}}
    \cup {Call([rooms |-> TypedRooms(ts)], 1000, FALSE, <<>>, 0) : ts \in {<<>>, FourTypes}}
    \cup {Call([grid_cols |-> 0], OUTPUT_WIDTH, FALSE, <<>>, 0)}

(***************************************************************************)
(* generate_floor_svg as a state machine                                   *)
(***************************************************************************)
Enter(c) ==
    /\ spec = c.spec
    /\ output_width = c.output_width
    /\ include_printers = c.include_printers
    /\ building_name = c.building_name
    /\ floor_number = c.floor_number

\* BulkInsertHelper.__init__
NewHelper(table_name) == [table_name |-> table_name, rows |-> <<>>, statements |-> <<>>]

SqlIdle ==
    /\ sql_pc = "idle"
    /\ sql_i = 0
    /\ n_floors = 0 /\ n_rooms = 0 /\ n_printers = 0
    /\ name_pool = <<>>
    /\ bulk_floors = NewHelper("floor")
    /\ bulk_rooms = NewHelper("room")
    /\ bulk_printers = NewHelper("printer_physical")
    /\ sql_statements = <<>>
    /\ bulk_pc = "idle"
    /\ helper = NewHelper("t")
    /\ added = 0
    /\ got = <<>>

DiagIdle ==
    /\ diag_pc = "idle"
    /\ template = [rooms |-> <<>>]
    /\ room_mapping = <<>>
    /\ filtered_rooms = <<>>
    /\ grid_to_pixel_scale = <<>>
    /\ printer_i = 0
    /\ pixel_coordinate = <<>>

ExecIdle ==
    /\ exec_pc = "idle"
    /\ statements = <<>>
    /\ verbose = FALSE
    /\ stmt_i = 0
    /\ results_summary = [success |-> TRUE]
    /\ driver = <<>>
    /\ conn_open = FALSE
    /\ cursor_open = FALSE
    /\ exception = "none"

FixIdle ==
    /\ fix_pc = "idle"
    /\ iteration = 0
    /\ puml_file = <<>>
    /\ original = <<>>
    /\ rendered = <<>>
    /\ png_file = <<>>
    /\ fix_result = "none"

VizIdle ==
    /\ viz_pc = "idle"
    /\ tables = <<>>
    /\ relationships = <<>>
    /\ levels = <<>>
    /\ processed = {}
    /\ changed = FALSE
    /\ emitted = <<>>

NotSqlIdle == DiagIdle /\ ExecIdle /\ FixIdle /\ VizIdle

NotDiagIdle == SqlIdle /\ ExecIdle /\ FixIdle /\ VizIdle

NotExecIdle == SqlIdle /\ DiagIdle /\ FixIdle /\ VizIdle

NotFixIdle == SqlIdle /\ DiagIdle /\ ExecIdle /\ VizIdle

NotVizIdle == SqlIdle /\ DiagIdle /\ ExecIdle /\ FixIdle

RestIdle == SqlIdle /\ DiagIdle /\ ExecIdle /\ FixIdle /\ VizIdle

NoContent == [viewBox |-> <<>>, width |-> -1, height |-> -1]

PngIdle ==
    /\ png_pc = "idle"
    /\ svg_content = NoContent
    /\ width = 0 /\ exact_height = 0
    /\ output_file = -1
    /\ attempts = <<>>
    /\ result = "none"

Fresh ==
    /\ RestIdle
    /\ PngIdle
    /\ pc = "start"
    /\ i = 0
    /\ W = 0 /\ H = 0 /\ diagram_height = 0 /\ out_h = 0
    /\ room_by_id = <<>>
    /\ room_elems = <<>> /\ printer_elems = <<>> /\ title_legend_elems = <<>>
    /\ sorted_types = <<>>
    /\ total_height = 0
    /\ lines = <<>> /\ font_size = 0 /\ line_height = 0
    /\ svg = [status |-> "none"]
    /\ returned = <<>>
    /\ calls = 1

InitInput ==
    \/ \E gy \in {0, 3}, gw \in 0..MaxGridW, gh \in 0..MaxGridH, l \in Labels,
          t \in {"lab", "corridor"} : Enter(LayoutInput(gy, gw, gh, l, t))
    \/ \E ts \in TypeLists : Enter(LegendInput(ts))
    \/ \E gs \in GridSizes, gc \in -1..MaxCols, gr \in -1..MaxRows,
          ts \in {<<>>, <<"gym", "lab">>, FourTypes, SevenTypes, TenTypes},
          ow \in {OUTPUT_WIDTH, 1000} : Enter(GridInput(gs, gc, gr, ts, ow))
    \/ \E ps \in PrinterLists, ip \in BOOLEAN : Enter(PrinterInput(ps, ip))
    \/ \E bn \in {<<>>, RnD \o <<" ">> \o Lab}, fn \in -2..MaxFloor :
          Enter(TitleInput(bn, fn))

Init == InitInput /\ Fresh

InitCalls == (\E c \in CallInputs : Enter(c)) /\ Fresh

\* Variant: the element lists are module-level and survive between calls.
Begin_stale ==
    /\ pc = "start"
    /\ W' = GRID_COLS * GRID_SIZE
    /\ H' = GRID_ROWS * GRID_SIZE
    /\ IF W' = 0
       THEN /\ pc' = "error"
            /\ UNCHANGED <<i, diagram_height, out_h, room_by_id>>
       ELSE /\ diagram_height' = FloatScale(output_width, H', W')
            /\ out_h' = diagram_height' + FloatScale(output_width, TITLE_HEIGHT + 400, W')
            /\ room_by_id' = BuildRoomById(rooms, <<>>)
            /\ i' = 1
            /\ pc' = IF Len(room_by_id') > 0 THEN "rooms" ELSE AfterLoop("rooms")
    /\ lines' = <<>> /\ font_size' = 0 /\ line_height' = 0
    /\ UNCHANGED <<rest, png, args, room_elems, printer_elems, title_legend_elems, sorted_types,
                   total_height, svg, returned, calls>>

\* Lines 58-127 and 302, 331: grid configuration, the preliminary height,
\* room_by_id and the empty element lists; the locals of the room loop are
\* not bound yet in the new frame.  H / W raises ZeroDivisionError
\* when W = 0.
Begin ==
    /\ pc = "start"
    /\ W' = GRID_COLS * GRID_SIZE
    /\ H' = GRID_ROWS * GRID_SIZE
    /\ IF W' = 0
       THEN /\ pc' = "error"
            /\ UNCHANGED <<i, diagram_height, out_h, room_by_id, room_elems, printer_elems,
                           title_legend_elems>>
       ELSE /\ diagram_height' = FloatScale(output_width, H', W')
            /\ out_h' = diagram_height' + FloatScale(output_width, TITLE_HEIGHT + 400, W')
            /\ room_by_id' = BuildRoomById(rooms, <<>>)
            /\ room_elems' = <<>>
            /\ printer_elems' = <<>>
            /\ title_legend_elems' = <<>>
            /\ i' = 1
            /\ pc' = IF Len(room_by_id') > 0 THEN "rooms" ELSE AfterLoop("rooms")
    /\ lines' = <<>> /\ font_size' = 0 /\ line_height' = 0
    /\ UNCHANGED <<rest, png, args, sorted_types, total_height, svg, returned, calls>>

\* Lines 128-297: one iteration of the room loop.
RenderRoom ==
    /\ pc = "rooms"
    /\ room_elems' = room_elems \o RoomElems(room_by_id[i])
    /\ LET r == room_by_id[i]
       IN  IF r.label = <<>> THEN UNCHANGED <<lines, font_size, line_height>>
           ELSE IF Layout(r) = "multi"
                THEN /\ lines' = PlanLines(split(r.label), r.w - 80, Len(r.label) * 20)
                     /\ font_size' = MultiLineFont(Len(lines'), r.h)
                     /\ line_height' = MultiLineHeight(Len(lines'), r.h)
                ELSE font_size' = 40 /\ UNCHANGED <<lines, line_height>>
    /\ IF i < Len(room_by_id)
       THEN i' = i + 1 /\ pc' = "rooms"
       ELSE i' = 1 /\ pc' = AfterLoop("rooms")
    /\ UNCHANGED <<rest, png, args, W, H, diagram_height, out_h, room_by_id, printer_elems,
                   title_legend_elems, sorted_types, total_height, svg, returned, calls>>

\* Lines 303-325: one iteration of the printer loop.
RenderPrinter ==
    /\ pc = "printers"
    /\ printer_elems' = Append(printer_elems, PrinterElem(room_by_id, printers[i]))
    /\ IF i < Len(printers)
       THEN i' = i + 1 /\ pc' = "printers"
       ELSE i' = 1 /\ pc' = AfterLoop("printers")
    /\ UNCHANGED <<rest, png, args, W, H, diagram_height, out_h, room_by_id, room_elems,
                   title_legend_elems, sorted_types, total_height, lines, font_size,
                   line_height, svg, returned, calls>>

\* Lines 330-405: the title, when both building_name and floor_number are
\* truthy, then one legend entry per sorted type.
ComposeTitleLegend ==
    /\ pc = "title"
    /\ sorted_types' = SortedTypes(rooms)
    /\ title_legend_elems' =
           (IF building_name # <<>> /\ floor_number # 0
            THEN <<TitleElem(building_name, floor_number, W, H)>> ELSE <<>>)
           \o [k \in 1..Len(sorted_types') |-> LegendElem(sorted_types'[k], k - 1, W, H)]
    /\ pc' = "compose"
    /\ UNCHANGED <<rest, png, args, i, W, H, diagram_height, out_h, room_by_id, room_elems,
                   printer_elems, total_height, lines, font_size, line_height, svg,
                   returned, calls>>

\* Lines 407-444: the final heights and the document.
Compose ==
    /\ pc = "compose"
    /\ total_height' = H + TITLE_HEIGHT + LegendHeight(Len(sorted_types))
    /\ out_h' = diagram_height
                + FloatScale(output_width, TITLE_HEIGHT + LegendHeight(Len(sorted_types)), W)
    /\ svg' = [status |-> "ok", viewBox_w |-> W, viewBox_h |-> total_height',
               width |-> output_width, height |-> out_h',
               rooms |-> room_elems, printers |-> printer_elems,
               border |-> [w |-> W, h |-> H], title_legend |-> title_legend_elems]
    /\ returned' = Append(returned, <<Call(spec, output_width, include_printers,
                                            building_name, floor_number), svg'>>)
    /\ pc' = "done"
    /\ UNCHANGED <<rest, png, args, i, W, H, diagram_height, room_by_id, room_elems, printer_elems,
                   title_legend_elems, sorted_types, lines, font_size, line_height, calls>>

\* A later call of the function by the pipeline, with any input.
CallAgain ==
    /\ pc \in {"done", "error"}
    /\ calls < MaxCalls
    /\ \E c \in CallInputs :
          /\ spec' = c.spec
          /\ output_width' = c.output_width
          /\ include_printers' = c.include_printers
          /\ building_name' = c.building_name
          /\ floor_number' = c.floor_number
    /\ pc' = "start"
    /\ calls' = calls + 1
    /\ UNCHANGED <<rest, png, i, locals, svg, returned>>

Next == Begin \/ RenderRoom \/ RenderPrinter \/ ComposeTitleLegend \/ Compose

Spec == Init /\ [][Next]_vars

NextCalls == Next \/ CallAgain

SpecCalls == InitCalls /\ [][NextCalls]_vars

(***************************************************************************)
(* svg_to_png                                                              *)
(***************************************************************************)
\* The first value of a list of attribute values that "(\d+)" matches, -1
\* when there is none: a negative number is written with a sign and does
\* not match.
FirstDigits(vals) ==
    IF \E j \in 1..Len(vals) : vals[j] >= 0
    THEN vals[CHOOSE j \in 1..Len(vals) :
                  vals[j] >= 0 /\ \A m \in 1..(j - 1) : vals[m] < 0]
    ELSE -1

RectsOf(es) == SelectSeq(es, LAMBDA e : e.kind = "rect")

\* The width="..." and height="..." attributes of the document of lines
\* 413-442 in the order of the text: header, background, rooms, the first
\* printer body, the outline (with stroke-width="8"), the first legend square.
WidthAttrs(doc) ==
    <<doc.width, doc.viewBox_w>>
    \o [j \in 1..Len(RectsOf(doc.rooms)) |-> RectsOf(doc.rooms)[j].w]
    \o (IF doc.printers # <<>> THEN <<50>> ELSE <<>>)
    \o <<doc.border.w, 8>>

HeightAttrs(doc) ==
    <<doc.height, doc.viewBox_h>>
    \o [j \in 1..Len(RectsOf(doc.rooms)) |-> RectsOf(doc.rooms)[j].h]
    \o (IF doc.printers # <<>> THEN <<50>> ELSE <<>>)
    \o <<doc.border.h>>
    \o (IF \E j \in 1..Len(doc.title_legend) : doc.title_legend[j].kind = "legend"
        THEN <<50>> ELSE <<>>)

\* What the three regular expressions of lines 453, 461 and 462 find in a
\* document of generate_floor_svg.
SvgContent(doc) ==
    [viewBox |-> IF doc.viewBox_w >= 0 /\ doc.viewBox_h >= 0
                 THEN <<doc.viewBox_w, doc.viewBox_h>> ELSE <<>>,
     width |-> FirstDigits(WidthAttrs(doc)),
     height |-> FirstDigits(HeightAttrs(doc))]

\* svg_height / svg_width raises ZeroDivisionError (lines 458, 466).
DivisionByZero(c) ==
    IF c.viewBox # <<>> THEN c.viewBox[1] = 0
    ELSE c.width >= 0 /\ c.height >= 0 /\ c.width = 0

\* Lines 453-468: exact_height for content c and target width wd.
ExactHeight(c, wd) ==
    IF c.viewBox # <<>> THEN FloatScale(wd, c.viewBox[2], c.viewBox[1])
    ELSE IF c.width >= 0 /\ c.height >= 0 THEN FloatScale(wd, c.height, c.width)
    ELSE Trunc(wd * 583, 1000)

\* Contents of SVG files on disk, as the regular expressions see them.
FileContents ==
    {[viewBox |-> <<2400, 1605>>, width |-> 2400, height |-> 1605],
     [viewBox |-> <<0, 100>>, width |-> 100, height |-> 100],
     [viewBox |-> <<>>, width |-> 300, height |-> 150],
     [viewBox |-> <<>>, width |-> 0, height |-> 150],
     [viewBox |-> <<>>, width |-> 300, height |-> -1],
     NoContent}

\* Sizes in bytes of a file written by a screenshot.
WrittenSizes == {100, 101}

\* Line 684 of generate_floor_diagram: the document just generated is
\* rasterized at the width it was generated for; a file of an earlier run
\* may be at output_path.
CallFromDiagram ==
    /\ pc = "done"
    /\ png_pc = "idle"
    /\ svg_content' = SvgContent(svg)
    /\ width' = output_width
    /\ \E f \in {-1, 5000} : output_file' = f
    /\ png_pc' = "dimensions"
    /\ UNCHANGED <<rest, args, pc, i, locals, svg, returned, calls, exact_height, attempts, result>>

\* Lines 107-115 of convert_svgs_to_png.py: a file read from disk is
\* rasterized when it has no PNG yet.
CallFromFile ==
    /\ pc = "convert"
    /\ png_pc = "idle"
    /\ \E c \in FileContents : svg_content' = c
    /\ width' = OUTPUT_WIDTH
    /\ output_file' = -1
    /\ png_pc' = "dimensions"
    /\ UNCHANGED <<rest, args, pc, i, locals, svg, returned, calls, exact_height, attempts, result>>

\* Lines 452-468, outside every try block.
Dimensions ==
    /\ png_pc = "dimensions"
    /\ IF DivisionByZero(svg_content)
       THEN png_pc' = "raised" /\ UNCHANGED exact_height
       ELSE /\ exact_height' = ExactHeight(svg_content, width)
            /\ png_pc' = "playwright"
    /\ UNCHANGED <<rest, args, pc, i, locals, svg, returned, calls, svg_content, width,
                   output_file, attempts, result>>

\* The file after a backend with outcome o: untouched when the import fails,
\* written or not when the backend fails on the way, written when it ran.
FileAfter(o) ==
    CASE o = "missing" -> {output_file}
      [] o = "failed" -> {output_file} \cup WrittenSizes
      [] OTHER -> WrittenSizes

\* Lines 470-522: ImportError and every other Exception are swallowed; True
\* is returned after browser.close() when the file has more than 100 bytes.
Playwright ==
    /\ png_pc = "playwright"
    /\ \E o \in {"missing", "failed", "ran"} : \E f \in FileAfter(o) :
          /\ output_file' = f
          /\ attempts' = Append(attempts, <<"playwright", o>>)
          /\ IF o = "ran" /\ f > 100
             THEN result' = "True" /\ png_pc' = "returned"
             ELSE png_pc' = "selenium" /\ UNCHANGED result
    /\ UNCHANGED <<rest, args, pc, i, locals, svg, returned, calls, svg_content, width,
                   exact_height>>

\* Lines 524-578: the same with Selenium, then return False.
Selenium ==
    /\ png_pc = "selenium"
    /\ \E o \in {"missing", "failed", "ran"} : \E f \in FileAfter(o) :
          /\ output_file' = f
          /\ attempts' = Append(attempts, <<"selenium", o>>)
          /\ result' = IF o = "ran" /\ f > 100 THEN "True" ELSE "False"
    /\ png_pc' = "returned"
    /\ UNCHANGED <<rest, args, pc, i, locals, svg, returned, calls, svg_content, width,
                   exact_height>>

ConvertEntry ==
    /\ Enter(Call([rooms |-> <<>>], OUTPUT_WIDTH, FALSE, <<>>, 0))
    /\ RestIdle
    /\ PngIdle
    /\ pc = "convert"
    /\ i = 0
    /\ W = 0 /\ H = 0 /\ diagram_height = 0 /\ out_h = 0
    /\ room_by_id = <<>>
    /\ room_elems = <<>> /\ printer_elems = <<>> /\ title_legend_elems = <<>>
    /\ sorted_types = <<>>
    /\ total_height = 0
    /\ lines = <<>> /\ font_size = 0 /\ line_height = 0
    /\ svg = [status |-> "none"]
    /\ returned = <<>>
    /\ calls = 1

\* The two entry points that reach svg_to_png: a floor diagram is generated
\* and rasterized, or a file on disk is converted.
InitPng ==
    \/ /\ Fresh
       /\ \/ \E gs \in GridSizes, gc \in -1..MaxCols, gr \in -1..MaxRows,
                ts \in {<<>>, <<"gym", "lab">>}, ow \in {OUTPUT_WIDTH, 1000} :
                Enter(GridInput(gs, gc, gr, ts, ow))
          \/ \E ps \in {<<>>, <<PrinterSpec(1, "r1", 25, -1)>>} :
                Enter(PrinterInput(ps, TRUE))
    \/ ConvertEntry

NextPng ==
    \/ Next
    \/ CallFromDiagram
    \/ CallFromFile
    \/ Dimensions
    \/ Playwright
    \/ Selenium

SpecPng == InitPng /\ [][NextPng]_vars

(***************************************************************************)
(* generate.py: BulkInsertHelper and generate_printer_infrastructure       *)
(***************************************************************************)
BULK_INSERT_SIZE == 1000

MaxAdded == 2001

\* str(text).replace("'", "''")
RECURSIVE sql_escape(_)
sql_escape(text) ==
    IF text = <<>> THEN <<>>
    ELSE (IF Head(text) = "'" THEN <<"'", "'">> ELSE <<Head(text)>>) \o sql_escape(Tail(text))

\* Line 243: how flush writes a str value.  The rows of the model hold the
\* string columns of a row only.
FormatValue(value) == <<"'">> \o sql_escape(value) \o <<"'">>

FormatRow(row) == [j \in 1..Len(row) |-> FormatValue(row[j])]

\* The text of a SQL string literal read back by SQL rules: the outer
\* quotes removed and every doubled quote taken as one.
RECURSIVE Undouble(_)
Undouble(t) ==
    IF t = <<>> THEN <<>>
    ELSE IF Len(t) >= 2 /\ t[1] = "'" /\ t[2] = "'"
         THEN <<"'">> \o Undouble(Tail(Tail(t)))
         ELSE <<Head(t)>> \o Undouble(Tail(t))

SqlDecode(literal) == Undouble(SubSeq(literal, 2, Len(literal) - 1))

\* One INSERT statement: the table and the formatted rows of its VALUES list.
flush(h) ==
    IF h.rows = <<>> THEN h
    ELSE [h EXCEPT !.statements =
                       Append(@, [table |-> h.table_name,
                                  values |-> [j \in 1..Len(h.rows) |-> FormatRow(h.rows[j])]]),
                   !.rows = <<>>]

\* Variant: the buffer is written out only when it has grown past the size.
add_row_late(h, values) ==
    IF Len(h.rows) > BULK_INSERT_SIZE
    THEN flush([h EXCEPT !.rows = Append(@, values)])
    ELSE [h EXCEPT !.rows = Append(@, values)]

add_row(h, values) ==
    LET h1 == [h EXCEPT !.rows = Append(@, values)]
    IN  IF Len(h1.rows) >= BULK_INSERT_SIZE THEN flush(h1) ELSE h1

\* The returned list and the helper afterwards.
get_statements(h) ==
    [statements |-> flush(h).statements, helper |-> [flush(h) EXCEPT !.statements = <<>>]]

\* The name given to the k-th room (lines 1170-1200), drawn from the names in use.
RoomName(k) == name_pool[((k - 1) % Len(name_pool)) + 1]

\* Identifiers are strings; the k-th one is written as the digits of k.
Uuid(k) == Digits(k)

FloorOff ==
    /\ Enter(Call([rooms |-> <<>>], OUTPUT_WIDTH, FALSE, <<>>, 0))
    /\ PngIdle
    /\ pc = "off"
    /\ i = 0
    /\ W = 0 /\ H = 0 /\ diagram_height = 0 /\ out_h = 0
    /\ room_by_id = <<>>
    /\ room_elems = <<>> /\ printer_elems = <<>> /\ title_legend_elems = <<>>
    /\ sorted_types = <<>>
    /\ total_height = 0
    /\ lines = <<>> /\ font_size = 0 /\ line_height = 0
    /\ svg = [status |-> "none"]
    /\ returned = <<>>
    /\ calls = 1

NamePools == {<<Lab>>, <<Mens, Lab>>, <<Laboratory, <<"W", "o", "m", "e", "n", "'", "s">>, Mens>>}

\* Lines 1154-1240: one room of a template gets its row.
AddRoomRow ==
    /\ sql_pc = "rows"
    /\ sql_i <= n_rooms
    /\ bulk_rooms' = add_row(bulk_rooms, <<Uuid(sql_i), sql_escape(RoomName(sql_i))>>)
    /\ sql_i' = sql_i + 1
    /\ UNCHANGED <<floor_all, not_sql, sql_pc, n_floors, n_rooms, n_printers, name_pool, bulk_floors,
                   bulk_printers, sql_statements, bulk_pc, helper, added, got>>

\* Lines 1289-1298: one floor gets its row, after all rooms.
AddFloorRow ==
    /\ sql_pc = "rows"
    /\ sql_i > n_rooms /\ sql_i <= n_rooms + n_floors
    /\ bulk_floors' = add_row(bulk_floors, <<Uuid(sql_i - n_rooms)>>)
    /\ sql_i' = sql_i + 1
    /\ UNCHANGED <<floor_all, not_sql, sql_pc, n_floors, n_rooms, n_printers, name_pool, bulk_rooms,
                   bulk_printers, sql_statements, bulk_pc, helper, added, got>>

\* Variant: the room statements are handed over before the floor statements.
EmitFloorsRooms_roomsfirst ==
    /\ sql_pc = "rows"
    /\ sql_i > n_rooms + n_floors
    /\ sql_statements' = sql_statements \o get_statements(bulk_rooms).statements
                                         \o get_statements(bulk_floors).statements
    /\ bulk_floors' = get_statements(bulk_floors).helper
    /\ bulk_rooms' = get_statements(bulk_rooms).helper
    /\ sql_pc' = "printers"
    /\ sql_i' = 1
    /\ UNCHANGED <<floor_all, not_sql, n_floors, n_rooms, n_printers, name_pool, bulk_printers,
                   bulk_pc, helper, added, got>>

\* Lines 1300-1306: the floor statements, then the room statements.
EmitFloorsRooms ==
    /\ sql_pc = "rows"
    /\ sql_i > n_rooms + n_floors
    /\ sql_statements' = sql_statements \o get_statements(bulk_floors).statements
                                         \o get_statements(bulk_rooms).statements
    /\ bulk_floors' = get_statements(bulk_floors).helper
    /\ bulk_rooms' = get_statements(bulk_rooms).helper
    /\ sql_pc' = "printers"
    /\ sql_i' = 1
    /\ UNCHANGED <<floor_all, not_sql, n_floors, n_rooms, n_printers, name_pool, bulk_printers,
                   bulk_pc, helper, added, got>>

\* Lines 1331-1412: one placed printer gets its row.
AddPrinterRow ==
    /\ sql_pc = "printers"
    /\ sql_i <= n_printers
    /\ bulk_printers' = add_row(bulk_printers, <<Uuid(sql_i)>>)
    /\ sql_i' = sql_i + 1
    /\ UNCHANGED <<floor_all, not_sql, sql_pc, n_floors, n_rooms, n_printers, name_pool, bulk_floors,
                   bulk_rooms, sql_statements, bulk_pc, helper, added, got>>

\* Lines 1414-1415.
EmitPrinters ==
    /\ sql_pc = "printers"
    /\ sql_i > n_printers
    /\ sql_statements' = sql_statements \o get_statements(bulk_printers).statements
    /\ bulk_printers' = get_statements(bulk_printers).helper
    /\ sql_pc' = "sql_done"
    /\ UNCHANGED <<floor_all, not_sql, sql_i, n_floors, n_rooms, n_printers, name_pool, bulk_floors,
                   bulk_rooms, bulk_pc, helper, added, got>>

\* A caller of a BulkInsertHelper adds one more row.
HelperAddRow ==
    /\ bulk_pc = "adding"
    /\ added < MaxAdded
    /\ helper' = add_row(helper, <<Uuid(added + 1)>>)
    /\ added' = added + 1
    /\ UNCHANGED <<floor_all, not_sql, sql_pc, sql_i, n_floors, n_rooms, n_printers, name_pool,
                   bulk_floors, bulk_rooms, bulk_printers, sql_statements, bulk_pc, got>>

\* The caller collects the statements, a first and a second time.
HelperGetStatements ==
    /\ bulk_pc \in {"adding", "collected"}
    /\ got' = Append(got, get_statements(helper).statements)
    /\ helper' = get_statements(helper).helper
    /\ bulk_pc' = IF bulk_pc = "adding" THEN "collected" ELSE "collected twice"
    /\ UNCHANGED <<floor_all, not_sql, sql_pc, sql_i, n_floors, n_rooms, n_printers, name_pool,
                   bulk_floors, bulk_rooms, bulk_printers, sql_statements, added>>

\* Sizes of the three tables with zero, one and several batches.
BigSizes ==
    {<<1, BULK_INSERT_SIZE, 1>>, <<1, BULK_INSERT_SIZE + 1, 1>>,
     <<BULK_INSERT_SIZE + 1, 2, 1>>,
     <<BULK_INSERT_SIZE + 1, MaxAdded, BULK_INSERT_SIZE + 1>>}

SqlRun(nf, nr, np, names) ==
    /\ sql_pc = "rows" /\ sql_i = 1
    /\ n_floors = nf /\ n_rooms = nr /\ n_printers = np
    /\ name_pool = names
    /\ bulk_floors = NewHelper("floor")
    /\ bulk_rooms = NewHelper("room")
    /\ bulk_printers = NewHelper("printer_physical")
    /\ sql_statements = <<>>
    /\ bulk_pc = "idle" /\ helper = NewHelper("t") /\ added = 0 /\ got = <<>>

InitSql ==
    /\ FloorOff
    /\ NotSqlIdle
    /\ \/ \E nf \in 0..2, nr \in 0..3, np \in 0..2, names \in NamePools :
             SqlRun(nf, nr, np, names)
       \/ \E z \in BigSizes : SqlRun(z[1], z[2], z[3], <<Lab>>)
       \/ /\ sql_pc = "idle" /\ sql_i = 0
          /\ n_floors = 0 /\ n_rooms = 0 /\ n_printers = 0
          /\ name_pool = <<>>
          /\ bulk_floors = NewHelper("floor")
          /\ bulk_rooms = NewHelper("room")
          /\ bulk_printers = NewHelper("printer_physical")
          /\ sql_statements = <<>>
          /\ bulk_pc = "adding" /\ helper = NewHelper("t") /\ added = 0 /\ got = <<>>

NextSql ==
    \/ AddRoomRow
    \/ AddFloorRow
    \/ EmitFloorsRooms
    \/ AddPrinterRow
    \/ EmitPrinters
    \/ HelperAddRow
    \/ HelperGetStatements

SpecSql == InitSql /\ [][NextSql]_vars

(***************************************************************************)
(* floor_generator.py: generate_floor_diagram, and the printer coordinates *)
(* of generate_printer_infrastructure                                      *)
(***************************************************************************)
UpperCase ==
    <<"A", "B", "C", "D", "E", "F", "G", "H", "I", "J", "K", "L", "M",
      "N", "O", "P", "Q", "R", "S", "T", "U", "V", "W", "X", "Y", "Z">>

LowerCase ==
    <<"a", "b", "c", "d", "e", "f", "g", "h", "i", "j", "k", "l", "m",
      "n", "o", "p", "q", "r", "s", "t", "u", "v", "w", "x", "y", "z">>

\* str.lower()
lower(s) ==
    [j \in 1..Len(s) |->
        IF \E k \in 1..26 : UpperCase[k] = s[j]
        THEN LowerCase[CHOOSE k \in 1..26 : UpperCase[k] = s[j]]
        ELSE s[j]]

\* sub in s
Contains(sub, s) ==
    \E k \in 0..(Len(s) - Len(sub)) : SubSeq(s, k + 1, k + Len(sub)) = sub

RestroomM == <<"r", "e", "s", "t", "r", "o", "o", "m", "-", "m">>
RestroomW == <<"r", "e", "s", "t", "r", "o", "o", "m", "-", "w">>
Men == <<"M", "e", "n">>
Women == <<"W", "o", "m", "e", "n">>
Womens == <<"W", "o", "m", "e", "n", "'", "s">>

\* A dict with string keys is a sequence of <<key, value>> pairs with
\* distinct keys.
DictHas(d, k) == \E j \in 1..Len(d) : d[j][1] = k

DictGet(d, k) == d[CHOOSE j \in 1..Len(d) : d[j][1] = k][2]

\* lines 633-634
is_mens(room) ==
    \/ Contains(RestroomM, lower(Get(room, "id", <<>>)))
    \/ Get(room, "label", <<>>) \in {Mens, Men}

is_womens(room) ==
    \/ Contains(RestroomW, lower(Get(room, "id", <<>>)))
    \/ Get(room, "label", <<>>) \in {Womens, Women}

\* The loop of lines 626-648: a restroom of a kind already seen is left
\* out; the women's test is the elif of the men's test.
RECURSIVE FilterRestrooms(_, _, _)
FilterRestrooms(rs, seen_m, seen_w) ==
    IF rs = <<>> THEN <<>>
    ELSE LET room == Head(rs)
             restroom == Get(room, "type", "") = "restroom"
             m == restroom /\ is_mens(room)
             w == restroom /\ ~m /\ is_womens(room)
         IN  IF (m /\ seen_m) \/ (w /\ seen_w)
             THEN FilterRestrooms(Tail(rs), seen_m, seen_w)
             ELSE <<room>> \o FilterRestrooms(Tail(rs), seen_m \/ m, seen_w \/ w)

\* d[k] = v on a dict that may lack the key
SetKey(d, k, v) == [f \in DOMAIN d \cup {k} |-> IF f = k THEN v ELSE d[f]]

\* Lines 655-667: the label becomes the database name found under the room
\* id, else under the current label, else stays.
UpdateLabel(room, mapping) ==
    LET room_id == Get(room, "id", <<>>)
        current_label == Get(room, "label", <<>>)
    IN  IF room_id # <<>> /\ DictHas(mapping, room_id)
        THEN SetKey(room, "label", DictGet(mapping, room_id))
        ELSE IF current_label # <<>> /\ DictHas(mapping, current_label)
             THEN SetKey(room, "label", DictGet(mapping, current_label))
             ELSE room

\* svg_width of line 611
SvgWidth(t) == Get(t, "grid_cols", 24) * Get(t, "grid_size", 100)

\* generate.py lines 1156-1196: the rooms of the template that become rows
\* of self.rooms. Unlabelled rooms, corridors, stairs and elevators are
\* skipped, and so is a restroom when its kind (or, for a restroom of
\* neither kind, both kinds) is already assigned.
RECURSIVE RoomsKept(_, _, _)
RoomsKept(rs, mens, womens) ==
    IF rs = <<>> THEN <<>>
    ELSE LET room_spec == Head(rs)
             template_room_id == lower(Get(room_spec, "id", <<>>))
             original_label == Get(room_spec, "label", <<>>)
             restroom == Get(room_spec, "type", "office") = "restroom"
             m == Contains(RestroomM, template_room_id) \/ original_label = Mens
             w == ~m /\ (Contains(RestroomW, template_room_id) \/ original_label = Womens)
             as_m == restroom /\ (m \/ (~w /\ ~mens))
             as_w == restroom /\ ~as_m /\ (w \/ ~womens)
         IN  IF \/ original_label = <<>>
                \/ Get(room_spec, "type", "") \in {"corridor", "stairs", "elevator"}
                \/ restroom /\ m /\ mens
                \/ restroom /\ w /\ womens
                \/ restroom /\ ~m /\ ~w /\ mens /\ womens
             THEN RoomsKept(Tail(rs), mens, womens)
             ELSE <<room_spec>> \o RoomsKept(Tail(rs), mens \/ as_m, womens \/ as_w)

\* generate.py lines 1321-1325 and 1343-1347: room_template_to_db.get(key)
\* as a list with the room_spec found, or the empty list. A later room with
\* the same lower-cased id replaces an earlier one.
room_template_to_db(rs, key) ==
    LET kept == RoomsKept(rs, FALSE, FALSE)
        at == {j \in 1..Len(kept) : key # <<>> /\ lower(Get(kept[j], "id", <<>>)) = key}
    IN  IF at = {} THEN <<>>
        ELSE <<kept[CHOOSE j \in at : \A k \in at : k <= j]>>

\* Positions are in hundredths of a grid cell.
get_room_grid_coordinate(room_spec, grid_rx, grid_ry) ==
    <<100 * room_spec.grid_x + room_spec.grid_w * grid_rx,
      100 * room_spec.grid_y + room_spec.grid_h * grid_ry>>

\* The <<grid position in hundredths, svg_width>> pairs whose double
\* product with OUTPUT_WIDTH / svg_width falls just below the integer that
\* the exact product is.
PixelRoundsBelow == {<<115, 12>>, <<115, 24>>}

\* int(grid * grid_to_pixel_scale) in double arithmetic
ScaleToPixel(grid100, scale) ==
    LET exact == Trunc(grid100 * scale[1], 100 * scale[2])
    IN  IF <<grid100, scale[2]>> \in PixelRoundsBelow THEN exact - 1 ELSE exact

grid_to_image_coordinate(grid_x, grid_y, grid_to_pixel_scale_) ==
    <<ScaleToPixel(grid_x, grid_to_pixel_scale_), ScaleToPixel(grid_y, grid_to_pixel_scale_)>>

\* generate.py lines 1358-1374; <<>> is None.
PixelCoordinate(printer_spec, room_spec, scale) ==
    IF scale = <<>> THEN <<>>
    ELSE LET g == get_room_grid_coordinate(room_spec, Get(printer_spec, "grid_rx", 15),
                                           Get(printer_spec, "grid_ry", 20))
         IN  <<[grid |-> g, pixel |-> grid_to_image_coordinate(g[1], g[2], scale)]>>

\* Lines 595-675 of generate_floor_diagram, up to the call of
\* generate_floor_svg: the scale, the restroom filter and the labels. A
\* template whose svg_width is 0 raises at line 612 and the caller goes on
\* without diagram and without scale.
GenerateFloorDiagram ==
    /\ diag_pc \in {"first call", "second call"}
    /\ IF SvgWidth(template) = 0
       THEN /\ diag_pc' = "printers"
            /\ printer_i' = 1
            /\ UNCHANGED <<args, pc, filtered_rooms>>
       ELSE /\ filtered_rooms' = FilterRestrooms(Get(template, "rooms", <<>>), FALSE, FALSE)
            /\ spec' = SetKey(template, "rooms",
                              [j \in 1..Len(filtered_rooms') |->
                                  UpdateLabel(filtered_rooms'[j], room_mapping)])
            /\ output_width' = OUTPUT_WIDTH
            /\ include_printers' = (diag_pc = "second call")
            /\ building_name' = RnD
            /\ floor_number' = 1
            /\ pc' = "start"
            /\ diag_pc' = IF diag_pc = "first call" THEN "first svg" ELSE "second svg"
            /\ UNCHANGED printer_i
    /\ UNCHANGED <<not_diag, png, i, locals, svg, returned, calls, template, room_mapping,
                   grid_to_pixel_scale, pixel_coordinate>>

\* Lines 677-700 with generate_png=False, and generate.py lines 1249-1287:
\* the first call stores the scale in the floor record and is followed by
\* the call with printers; an exception of the first call skips the second.
DiagramReturn ==
    /\ diag_pc \in {"first svg", "second svg"}
    /\ pc \in {"done", "error"}
    /\ IF diag_pc = "first svg" /\ pc = "done"
       THEN /\ grid_to_pixel_scale' = <<OUTPUT_WIDTH, SvgWidth(template)>>
            /\ diag_pc' = "second call"
            /\ UNCHANGED printer_i
       ELSE /\ diag_pc' = "printers"
            /\ printer_i' = 1
            /\ UNCHANGED grid_to_pixel_scale
    /\ UNCHANGED <<not_diag, floor_all, template, room_mapping, filtered_rooms,
                   pixel_coordinate>>

\* One turn of the printer loop of generate.py lines 1341-1374, or its end.
PrinterCoordinate ==
    /\ diag_pc = "printers"
    /\ LET printers_spec == Get(template, "printers", <<>>)
       IN  IF printer_i > Len(printers_spec)
           THEN /\ diag_pc' = "diag_done"
                /\ UNCHANGED <<printer_i, pixel_coordinate>>
           ELSE LET printer_spec == printers_spec[printer_i]
                    room == room_template_to_db(Get(template, "rooms", <<>>),
                                                lower(Get(printer_spec, "room", <<>>)))
                IN  /\ pixel_coordinate' =
                          IF room = <<>> THEN pixel_coordinate
                          ELSE Append(pixel_coordinate,
                                      [printer_spec |-> printer_spec,
                                       pixel_coordinate |->
                                           PixelCoordinate(printer_spec, room[1],
                                                           grid_to_pixel_scale)])
                    /\ printer_i' = printer_i + 1
                    /\ UNCHANGED diag_pc
    /\ UNCHANGED <<not_diag, floor_all, template, room_mapping, filtered_rooms,
                   grid_to_pixel_scale>>

MaxTemplateRooms == 3

Lab1 == <<"l", "a", "b", "1">>
Off2 == <<"O", "f", "f", "2">>
OfficeLabel == <<"O", "f", "f", "i", "c", "e">>

\* Restrooms named by id, by label, by both in disagreement and by neither,
\* a lab whose id reads like a restroom's, and a corridor.
RoomKinds ==
    { [id |-> RestroomM \o <<"1">>, type |-> "restroom", label |-> Mens],
      [id |-> <<"R">> \o Tail(RestroomM) \o <<"2">>, type |-> "restroom"],
      [id |-> <<"w", "c", "1">>, type |-> "restroom", label |-> Men],
      [id |-> RestroomW \o <<"1">>, type |-> "restroom", label |-> Womens],
      [id |-> <<"w", "c", "2">>, type |-> "restroom", label |-> Women],
      [id |-> RestroomM \o <<"3">>, type |-> "restroom", label |-> Womens],
      [id |-> <<"w", "c", "3">>, type |-> "restroom", label |-> Lab],
      [id |-> RestroomM \o <<"4">>, type |-> "lab", label |-> Lab],
      [id |-> <<"c", "1">>, type |-> "corridor"] }

\* The room of kind k as the j-th room of a template.
PlaceRoom(k, j) ==
    [f \in DOMAIN k \cup {"grid_x", "grid_y", "grid_w", "grid_h"} |->
        CASE f = "grid_x" -> 2 * (j - 1)
          [] f = "grid_y" -> 1
          [] f \in {"grid_w", "grid_h"} -> 2
          [] OTHER -> k[f]]

RestroomTemplates ==
    UNION {{[rooms |-> [j \in 1..n |-> PlaceRoom(ks[j], j)]] : ks \in [1..n -> RoomKinds]} :
           n \in 0..MaxTemplateRooms}

LabAndOffice ==
    << [id |-> Lab1, grid_x |-> 1, grid_y |-> 2, grid_w |-> 1, grid_h |-> 2,
        label |-> ComputerLab, type |-> "lab"],
       [id |-> Off2, grid_x |-> 2, grid_y |-> 3, grid_w |-> 4, grid_h |-> 3,
        label |-> OfficeLabel, type |-> "office"] >>

\* One printer, or one printer followed by a printer at the default place
\* of the lab.
TemplatePrinters ==
    LET one == {PrinterSpec(1, rm, rx, ry) :
                   rm \in {Lab1, Off2, lower(Off2), <<"x">>}, rx \in PrinterRx, ry \in PrinterRy}
    IN  {<<>>} \cup {<<p>> : p \in one} \cup {<<p, PrinterSpec(2, Lab1, -1, -1)>> : p \in one}

\* grid_size and grid_cols: -1 for an absent key
PrinterTemplate(gs, gc, ps) ==
    LET base == [rooms |-> LabAndOffice, printers |-> ps]
        sized == IF gs < 0 THEN base ELSE SetKey(base, "grid_size", gs)
    IN  IF gc < 0 THEN sized ELSE SetKey(sized, "grid_cols", gc)

RoomMappings ==
    {<<>>, <<<<RestroomM \o <<"1">>, Mens>>, <<Men, Mens>>, <<Lab1, ComputerLab>>>>}

DiagramEntry ==
    /\ Enter(Call([rooms |-> <<>>], OUTPUT_WIDTH, FALSE, <<>>, 0))
    /\ NotDiagIdle
    /\ PngIdle
    /\ pc = "template"
    /\ i = 0
    /\ W = 0 /\ H = 0 /\ diagram_height = 0 /\ out_h = 0
    /\ room_by_id = <<>>
    /\ room_elems = <<>> /\ printer_elems = <<>> /\ title_legend_elems = <<>>
    /\ sorted_types = <<>>
    /\ total_height = 0
    /\ lines = <<>> /\ font_size = 0 /\ line_height = 0
    /\ svg = [status |-> "none"]
    /\ returned = <<>>
    /\ calls = 1

InitDiagram ==
    /\ DiagramEntry
    /\ diag_pc = "first call"
    /\ \/ \E t \in RestroomTemplates : template = t
       \/ \E gs \in {-1, 1}, gc \in {-1, 0, 12}, ps \in TemplatePrinters :
             template = PrinterTemplate(gs, gc, ps)
    /\ \E m \in RoomMappings : room_mapping = m
    /\ filtered_rooms = <<>>
    /\ grid_to_pixel_scale = <<>>
    /\ printer_i = 0
    /\ pixel_coordinate = <<>>

NextDiagram ==
    \/ Next
    \/ GenerateFloorDiagram
    \/ DiagramReturn
    \/ PrinterCoordinate

SpecDiagram == InitDiagram /\ [][NextDiagram]_vars

(***************************************************************************)
(* pipeline/execute_sql_file.py: execute_sql_file                          *)
(***************************************************************************)
MaxStatements == 3

\* What the database does with a statement: "insert" runs and has no result
\* set, "select" runs and has one, "bad" makes cursor.execute raise.
StatementKinds == {"insert", "select", "bad"}

StatementLists == UNION {[1..n -> StatementKinds] : n \in 0..MaxStatements}

\* Lines 276-283
NewSummary ==
    [success |-> TRUE, statements_executed |-> 0, statements_succeeded |-> 0,
     statements_failed |-> 0, results |-> <<>>, errors |-> <<>>]

\* Lines 267-273
ConnectionFailed ==
    [success |-> FALSE, statements_executed |-> 0, statements_succeeded |-> 0,
     statements_failed |-> 0, results |-> <<>>, errors |-> <<"Connection failed">>]

\* execute_statement, lines 99-129: the success flag; every exception of
\* cursor.execute is caught and reported as a failure.
execute_statement(statement) == statement # "bad"

\* Lines 258-273: pyodbc.connect and conn.cursor() succeed, or the function
\* returns the failure summary without a connection.
Connect ==
    /\ exec_pc = "connect"
    /\ \/ /\ driver' = <<<<"connect">>>>
          /\ conn_open' = TRUE
          /\ cursor_open' = TRUE
          /\ results_summary' = NewSummary
          /\ stmt_i' = 1
          /\ exec_pc' = "loop"
       \/ /\ results_summary' = ConnectionFailed
          /\ exec_pc' = "returned"
          /\ UNCHANGED <<driver, conn_open, cursor_open, stmt_i>>
    /\ UNCHANGED <<not_exec, floor_all, statements, verbose, exception>>

\* Variant: the loop is left at the first failed statement.
ExecuteStatement_failfast ==
    /\ exec_pc = "loop"
    /\ stmt_i <= Len(statements)
    /\ driver' = Append(driver, <<"execute", stmt_i>>)
    /\ IF execute_statement(statements[stmt_i])
       THEN /\ results_summary' =
                  [results_summary EXCEPT !.statements_executed = @ + 1,
                                          !.statements_succeeded = @ + 1,
                                          !.results = Append(@, stmt_i)]
            /\ stmt_i' = stmt_i + 1
       ELSE /\ results_summary' =
                  [results_summary EXCEPT !.statements_executed = @ + 1,
                                          !.statements_failed = @ + 1,
                                          !.success = FALSE,
                                          !.errors = Append(@, stmt_i)]
            /\ stmt_i' = Len(statements) + 1
    /\ UNCHANGED <<not_exec, floor_all, exec_pc, statements, verbose, conn_open,
                   cursor_open, exception>>

\* One turn of the loop of lines 286-328. The statement is counted and sent
\* to the database; its outcome is counted; with verbose the outcome is
\* printed before it is appended to the results or the errors, and a print
\* that raises (a console that cannot encode the text) leaves the loop for
\* the except clause of line 333.
ExecuteStatement ==
    /\ exec_pc = "loop"
    /\ stmt_i <= Len(statements)
    /\ driver' = Append(driver, <<"execute", stmt_i>>)
    /\ LET success == execute_statement(statements[stmt_i])
           counted == IF success
                      THEN [results_summary EXCEPT !.statements_executed = @ + 1,
                                                   !.statements_succeeded = @ + 1]
                      ELSE [results_summary EXCEPT !.statements_executed = @ + 1,
                                                   !.statements_failed = @ + 1,
                                                   !.success = FALSE]
       IN  \/ /\ results_summary' =
                    IF success THEN [counted EXCEPT !.results = Append(@, stmt_i)]
                    ELSE [counted EXCEPT !.errors = Append(@, stmt_i)]
              /\ stmt_i' = stmt_i + 1
              /\ UNCHANGED <<exec_pc, exception>>
           \/ /\ verbose
              /\ results_summary' = counted
              /\ exception' = "print"
              /\ exec_pc' = "except"
              /\ UNCHANGED stmt_i
    /\ UNCHANGED <<not_exec, floor_all, statements, verbose, conn_open, cursor_open>>

\* Line 331, after the last statement: the commit succeeds or raises.
Commit ==
    /\ exec_pc = "loop"
    /\ stmt_i > Len(statements)
    /\ driver' = Append(driver, <<"commit">>)
    /\ \/ exec_pc' = "finally" /\ UNCHANGED exception
       \/ exec_pc' = "except" /\ exception' = "commit"
    /\ UNCHANGED <<not_exec, floor_all, statements, verbose, stmt_i, results_summary,
                   conn_open, cursor_open>>

\* Lines 333-342: the rollback, which may itself raise; the finally clause
\* runs in both cases.
Rollback ==
    /\ exec_pc = "except"
    /\ driver' = Append(driver, <<"rollback">>)
    /\ \/ /\ results_summary' = [results_summary EXCEPT !.success = FALSE,
                                                        !.errors = Append(@, 0)]
          /\ UNCHANGED exception
       \/ /\ exception' = "rollback"
          /\ UNCHANGED results_summary
    /\ exec_pc' = "finally"
    /\ UNCHANGED <<not_exec, floor_all, statements, verbose, stmt_i, conn_open, cursor_open>>

\* Lines 344-360: cursor and connection are closed, then the summary is
\* returned, or the exception of the rollback goes on to the caller.
Finally ==
    /\ exec_pc = "finally"
    /\ driver' = driver \o <<<<"cursor.close">>, <<"conn.close">>>>
    /\ cursor_open' = FALSE
    /\ conn_open' = FALSE
    /\ exec_pc' = IF exception = "rollback" THEN "raised" ELSE "returned"
    /\ UNCHANGED <<not_exec, floor_all, statements, verbose, stmt_i, results_summary,
                   exception>>

InitExec ==
    /\ FloorOff
    /\ NotExecIdle
    /\ exec_pc = "connect"
    /\ \E s \in StatementLists : statements = s
    /\ \E v \in BOOLEAN : verbose = v
    /\ stmt_i = 0
    /\ results_summary = NewSummary
    /\ driver = <<>>
    /\ conn_open = FALSE
    /\ cursor_open = FALSE
    /\ exception = "none"

NextExec == Connect \/ ExecuteStatement \/ Commit \/ Rollback \/ Finally

SpecExec == InitExec /\ [][NextExec]_vars

\* The function is sequential code that runs to its end: a step that can
\* be taken is taken.
FairExec == SpecExec /\ WF_vars(NextExec)

(***************************************************************************)
(* visualize/fix_diagram_dimensions.py                                     *)
(***************************************************************************)
MAX_WIDTH == 2000
MAX_HEIGHT == 3000
MAX_ITERATIONS == 5

\* A PlantUML text is the sequence of its lines (content.split('\n')). The
\* lines of the component diagrams the script is written for:
PumlStart == "@startuml"

TopToBottom == "top to bottom direction"

LeftToRightIndented == "  left to right direction"

InterfaceDef == "interface \"Print API\" as PrintService_IF"

InterfaceBare == "interface \"Legacy\""

Lollipop == "PrintService -up- PrintService_IF"

Socket == "BackendAPI_IF .r.> PrintService_IF"

WebUILollipop == "WebUI -up- BackendAPI_IF"

InterfaceUse == "PrintService_IF : print()"

SectionNote == "' Frontend to API"

Component == "component PrintService"

PumlEnd == "@enduml"

ForceVertical ==
    <<"",
      "' Force vertical layout",
      "WebUI -[hidden]down-> BackendAPI",
      "BackendAPI -[hidden]down-> PrintService",
      "PrintService -[hidden]down-> PricingService",
      "PricingService -[hidden]down-> PaymentService",
      "PaymentService -[hidden]down-> RefundService",
      "RefundService -[hidden]down-> DepositService",
      "DepositService -[hidden]down-> BonusService",
      "BonusService -[hidden]down-> LedgerService",
      "LedgerService -[hidden]down-> PrinterController",
      "PrinterController -[hidden]down-> FileStorage",
      "FileStorage -[hidden]down-> PaymentGateway",
      "PaymentGateway -[hidden]down-> Database">>

ForceHorizontal ==
    <<"",
      "' Force horizontal layout for Business Services",
      "PrintService -[hidden]right-> PricingService",
      "PricingService -[hidden]right-> PaymentService",
      "PaymentService -[hidden]right-> RefundService",
      "RefundService -[hidden]right-> DepositService",
      "DepositService -[hidden]right-> BonusService",
      "BonusService -[hidden]right-> LedgerService">>

EssentialConnections ==
    <<"",
      "' Essential connections only",
      "WebUI --> BackendAPI",
      "BackendAPI --> PrintService",
      "BackendAPI --> PricingService",
      "BackendAPI --> PaymentService",
      "BackendAPI --> RefundService",
      "BackendAPI --> DepositService",
      "BackendAPI --> BonusService",
      "BackendAPI --> LedgerService",
      "PrintService --> PricingService",
      "PrintService --> PaymentService",
      "PrintService --> PrinterController",
      "PrintService --> FileStorage",
      "PrintService --> Database",
      "PricingService --> Database",
      "PaymentService --> LedgerService",
      "PaymentService --> PaymentGateway",
      "PaymentService --> Database",
      "RefundService --> PaymentService",
      "RefundService --> LedgerService",
      "RefundService --> Database",
      "DepositService --> BonusService",
      "DepositService --> PaymentGateway",
      "DepositService --> LedgerService",
      "DepositService --> Database",
      "BonusService --> Database",
      "LedgerService --> Database">>

LeftToRight == "left to right direction"

\* re.match(r'^\s*(top to bottom|left to right)\s+direction', line)
IsDirection(line) == line \in {TopToBottom, LeftToRightIndented, LeftToRight}

\* 'interface "' in line
HasInterface(line) == line \in {InterfaceDef, InterfaceBare}

\* 'interface "' in line and 'as ' in line
IsInterfaceDef(line) == line = InterfaceDef

\* re.search(r'-\s*(up|down|left|right)\s*-', line); the arrows
\* -[hidden]down-> and -[hidden]right-> do not match.
IsLollipop(line) == line \in {Lollipop, WebUILollipop}

\* re.search(r'\.(r|l|u|d)\.>', line)
IsSocket(line) == line = Socket

\* A comment line that names one of the three sections; the comment that
\* strategy 4 adds is one of them.
IsSectionNote(line) == line \in {SectionNote, ForceHorizontal[2]}

Removed(line) == IsInterfaceDef(line) \/ IsLollipop(line) \/ IsSocket(line)

Kept(line) == ~Removed(line)

Kept5(line) == ~(HasInterface(line) \/ IsLollipop(line) \/ IsSocket(line) \/ IsSectionNote(line))

Redirect(content, direction) ==
    [j \in 1..Len(content) |-> IF IsDirection(content[j]) THEN direction ELSE content[j]]

\* '\n'.join(new_lines) read back by split('\n'): no line at all is the
\* empty text, which is one empty line.
JoinLines(new_lines) == IF new_lines = <<>> THEN <<"">> ELSE new_lines

\* Strategy 2 keeps the lines that lines 91-98 do not skip: each
\* replacement of lines 100-171 asks for '.r.>' or '-up-' in the line, which
\* lines 94-98 have skipped.
fix_diagram_layout(puml_content, iteration_) ==
    JoinLines(CASE iteration_ = 1 -> Redirect(puml_content, LeftToRight)
                [] iteration_ = 2 -> SelectSeq(puml_content, Kept)
                [] iteration_ = 3 -> SelectSeq(puml_content, Kept) \o ForceVertical
                [] iteration_ = 4 ->
                      SelectSeq(Redirect(puml_content, TopToBottom),
                                LAMBDA l : IsDirection(l) \/ Kept(l)) \o ForceHorizontal
                [] OTHER -> SelectSeq(puml_content, Kept5) \o EssentialConnections)

\* Variant: only the width is compared.
Acceptable_width(image) == image[1] <= MAX_WIDTH

\* Line 307
Acceptable(image) == image[1] <= MAX_WIDTH /\ image[2] <= MAX_HEIGHT

\* What render_with_kroki gives: None (<<>>) when the request fails, else
\* an image of some width and height.
Images ==
    {<<>>, <<MAX_WIDTH, MAX_HEIGHT>>, <<MAX_WIDTH + 1, MAX_HEIGHT>>,
     <<MAX_WIDTH, MAX_HEIGHT + 1>>}

\* One turn of the loop of lines 277-318: read, from the second turn on
\* rewrite with the strategy of the turn, render, and when there is an
\* image save it and return True if it is small enough.
Attempt ==
    /\ fix_pc = "loop"
    /\ iteration <= MAX_ITERATIONS
    /\ LET puml_content == IF iteration > 1 THEN fix_diagram_layout(puml_file, iteration)
                           ELSE puml_file
       IN  /\ puml_file' = puml_content
           /\ \E image_data \in Images :
                 /\ rendered' = Append(rendered, [puml_content |-> puml_content,
                                                  image_data |-> image_data])
                 /\ png_file' = IF image_data = <<>> THEN png_file ELSE image_data
                 /\ IF image_data # <<>> /\ Acceptable(image_data)
                    THEN /\ fix_pc' = "returned"
                         /\ fix_result' = "True"
                         /\ UNCHANGED iteration
                    ELSE /\ iteration' = iteration + 1
                         /\ UNCHANGED <<fix_pc, fix_result>>
    /\ UNCHANGED <<not_fix, floor_all, original>>

\* Lines 320-321, after the last turn.
GiveUp ==
    /\ fix_pc = "loop"
    /\ iteration > MAX_ITERATIONS
    /\ fix_pc' = "returned"
    /\ fix_result' = "False"
    /\ UNCHANGED <<not_fix, floor_all, iteration, puml_file, original, rendered, png_file>>

PumlFiles ==
    { <<PumlStart, TopToBottom, InterfaceDef, InterfaceBare, Lollipop, Socket,
        WebUILollipop, InterfaceUse, SectionNote, Component, PumlEnd>>,
      <<LeftToRightIndented, Component>>,
      <<Lollipop>>,
      <<"">> }

InitFix ==
    /\ FloorOff
    /\ NotFixIdle
    /\ fix_pc = "loop"
    /\ iteration = 1
    /\ \E f \in PumlFiles : puml_file = f /\ original = f
    /\ rendered = <<>>
    /\ png_file = <<>>
    /\ fix_result = "none"

NextFix == Attempt \/ GiveUp

SpecFix == InitFix /\ [][NextFix]_vars

\* The script is sequential code and every render request has a timeout.
FairFix == SpecFix /\ WF_vars(NextFix)

(***************************************************************************)
(* scripts/visualize/visualize.py: determine_table_levels and the class    *)
(* section of generate_plantuml                                            *)
(***************************************************************************)
MaxTables == 3
MaxRelationships == 3

\* A table is named by the rank of its name in sorted order. tables is the
\* list of the keys of the dict in insertion order; a relationship is
\* <<from_table, to_table>>, the table that holds the foreign key and the
\* table it references.
TableNames == 1..MaxTables

\* levels is a function on TableNames; NoLevel stands for a key that is not
\* in the dict.
NoLevel == -1

NoLevels == [t \in TableNames |-> NoLevel]

\* Lines 312-315: dependents[to_table], the tables that reference it.
dependents(rels, t) ==
    {rels[k][1] : k \in {j \in 1..Len(rels) : rels[j][2] = t /\ rels[j][1] # t}}

\* Line 331: [p for p, _, c, _ in relationships if c == t]
parents(rels, t) == {rels[k][1] : k \in {j \in 1..Len(rels) : rels[j][2] = t}}

MaxOf(S) == CHOOSE m \in S : \A x \in S : x <= m

\* Lines 328-335: the rest of one turn of the for loop over tables, from
\* position k on; a level set earlier in the turn is seen later in it.
RECURSIVE Pass(_, _, _, _, _, _)
Pass(ts, rels, k, lv, done, ch) ==
    IF k > Len(ts) THEN [levels |-> lv, processed |-> done, changed |-> ch]
    ELSE LET t == ts[k]
             ps == parents(rels, t)
         IN  IF t \notin done /\ ps # {} /\ \A p \in ps : lv[p] # NoLevel
             THEN Pass(ts, rels, k + 1,
                       [lv EXCEPT ![t] = MaxOf({lv[p] : p \in ps}) + 1],
                       done \cup {t}, TRUE)
             ELSE Pass(ts, rels, k + 1, lv, done, ch)

\* Lines 312-325: the tables that no other table references get level 0.
Roots ==
    /\ viz_pc = "roots"
    /\ levels' = [t \in TableNames |->
                     IF t \in Range(tables) /\ dependents(relationships, t) = {}
                     THEN 0 ELSE NoLevel]
    /\ processed' = {t \in Range(tables) : dependents(relationships, t) = {}}
    /\ changed' = TRUE
    /\ viz_pc' = "while"
    /\ UNCHANGED <<not_viz, floor_all, tables, relationships, emitted>>

\* One turn of the while loop of lines 326-335.
WhilePass ==
    /\ viz_pc = "while"
    /\ changed /\ Cardinality(processed) < Len(tables)
    /\ LET r == Pass(tables, relationships, 1, levels, processed, FALSE)
       IN  /\ levels' = r.levels
           /\ processed' = r.processed
           /\ changed' = r.changed
    /\ UNCHANGED <<not_viz, floor_all, viz_pc, tables, relationships, emitted>>

\* Lines 337-340: the loop is left and the tables without level get 0.
Fallback ==
    /\ viz_pc = "while"
    /\ ~(changed /\ Cardinality(processed) < Len(tables))
    /\ levels' = [t \in TableNames |->
                     IF t \in Range(tables) /\ levels[t] = NoLevel THEN 0 ELSE levels[t]]
    /\ viz_pc' = "levels"
    /\ UNCHANGED <<not_viz, floor_all, tables, relationships, processed, changed, emitted>>

\* sorted(S) for a set of numbers
RECURSIVE Sorted(_)
Sorted(S) ==
    IF S = {} THEN <<>>
    ELSE LET m == CHOOSE x \in S : \A y \in S : x <= y
         IN  <<m>> \o Sorted(S \ {m})

RECURSIVE Concat(_)
Concat(ss) == IF ss = <<>> THEN <<>> ELSE Head(ss) \o Concat(Tail(ss))

\* generate_plantuml lines 384-399: the classes in the order of the text,
\* level by level from the lowest number, sorted by name inside a level.
EmitClasses ==
    /\ viz_pc = "levels"
    /\ LET lvls == Sorted({levels[t] : t \in Range(tables)})
       IN  emitted' = Concat([k \in 1..Len(lvls) |->
                                 Sorted({t \in Range(tables) : levels[t] = lvls[k]})])
    /\ viz_pc' = "emitted"
    /\ UNCHANGED <<not_viz, floor_all, tables, relationships, levels, processed, changed>>

\* The lists without repetition of the names in S
Orders(S) ==
    {o \in [1..Cardinality(S) -> S] : \A a, b \in 1..Cardinality(S) : a # b => o[a] # o[b]}

RelationshipLists ==
    UNION {[1..n -> TableNames \X TableNames] : n \in 0..MaxRelationships}

\* parse_sql_schema gives a relationship only for a table it has read, and
\* the referenced table may be missing from the file.
InitViz ==
    /\ FloorOff
    /\ NotVizIdle
    /\ viz_pc = "roots"
    /\ \E S \in SUBSET TableNames : \E o \in Orders(S) : tables = o
    /\ \E rels \in RelationshipLists :
          /\ relationships = rels
          /\ \A k \in 1..Len(rels) : rels[k][1] \in Range(tables)
    /\ levels = NoLevels
    /\ processed = {}
    /\ changed = FALSE
    /\ emitted = <<>>

NextViz == Roots \/ WhilePass \/ Fallback \/ EmitClasses

SpecViz == InitViz /\ [][NextViz]_vars

\* The function is sequential code.
FairViz == SpecViz /\ WF_vars(NextViz)

(***************************************************************************)
(* Reading the document                                                    *)
(***************************************************************************)
\* Index in es of the rectangle of the k-th rendered room.
RectIdx(es, k) ==
    CHOOSE j \in 1..Len(es) :
        es[j].kind = "rect" /\ Cardinality({m \in 1..j : es[m].kind = "rect"}) = k

\* The label element that follows the k-th rectangle, if any.
HasLabelElem(es, k) ==
    RectIdx(es, k) < Len(es) /\ es[RectIdx(es, k) + 1].kind # "rect"

LabelElem(es, k) == es[RectIdx(es, k) + 1]

\* The text elements drawn for the k-th room.
RoomTexts(es, k) ==
    IF ~HasLabelElem(es, k) THEN <<>>
    ELSE IF LabelElem(es, k).kind = "g" THEN LabelElem(es, k).lines
    ELSE <<LabelElem(es, k)>>

TextsOnly(ts) == [j \in 1..Len(ts) |-> ts[j].text]

IsPrefix(a, b) == Len(a) <= Len(b) /\ a = SubSeq(b, 1, Len(a))

Done == pc = "done"

RoomIdx == 1..Len(room_by_id)

\* The k-th room got the single-line layout: one unrotated text, no group.
SingleLine(k) ==
    /\ HasLabelElem(svg.rooms, k)
    /\ LabelElem(svg.rooms, k).kind = "text"
    /\ ~LabelElem(svg.rooms, k).rotated

Rotated(k) ==
    /\ HasLabelElem(svg.rooms, k)
    /\ LabelElem(svg.rooms, k).kind = "text"
    /\ LabelElem(svg.rooms, k).rotated

MultiLine(k) == HasLabelElem(svg.rooms, k) /\ LabelElem(svg.rooms, k).kind = "g"

(***************************************************************************)
(* Properties                                                              *)
(***************************************************************************)
Computer == SubSeq(ComputerLab, 1, 8)
Administrative == SubSeq(AdministrativeOffice, 1, 14)
Office == SubSeq(AdministrativeOffice, 16, 21)

IsComputerLab300(k) == room_by_id[k].w = 300 /\ room_by_id[k].label = ComputerLab

IsAdminOffice150(k) == room_by_id[k].w = 150 /\ room_by_id[k].label = AdministrativeOffice

\* C1 as stated: a 300 px wide room labelled "Computer Lab" gets one
\* unrotated text element holding the whole label, whatever its height.
C1_SingleLine ==
    Done => \A k \in RoomIdx :
        IsComputerLab300(k) =>
            SingleLine(k) /\ LabelElem(svg.rooms, k).text = ComputerLab

\* C1 amended: the label of a 300 px wide room labelled "Computer Lab"
\* (estimated 240 px > 300 - 80) is never rotated and never one element
\* holding the whole label: the multi-line layout plans "Computer" and "Lab",
\* the emitted lines are a prefix of these two, and both are emitted when
\* the room is at least 165 px high.
C1_TwoLinesPlanned ==
    Done => \A k \in RoomIdx :
        IsComputerLab300(k) =>
            /\ MultiLine(k)
            /\ IsPrefix(TextsOnly(RoomTexts(svg.rooms, k)), <<Computer, Lab>>)
            /\ \A j \in 1..Len(RoomTexts(svg.rooms, k)) : ~RoomTexts(svg.rooms, k)[j].rotated
            /\ (room_by_id[k].h >= 165 => Len(RoomTexts(svg.rooms, k)) = 2)

C1_Witness ==
    Done /\ \E k \in RoomIdx :
        /\ IsComputerLab300(k)
        /\ room_by_id[k].h >= 165
        /\ TextsOnly(RoomTexts(svg.rooms, k)) = <<Computer, Lab>>

\* C2 as stated: a 150 px wide room labelled "Administrative Office" gets
\* exactly the two text lines "Administrative" and "Office", whatever its
\* height.
C2_TwoLines ==
    Done => \A k \in RoomIdx :
        IsAdminOffice150(k) =>
            MultiLine(k) /\ TextsOnly(RoomTexts(svg.rooms, k)) = <<Administrative, Office>>

\* C2 amended: for a 150 px wide room labelled "Administrative Office" that
\* is not taller than wide (height <= 150) the multi-line layout is chosen,
\* it plans "Administrative" then "Office" and emits a prefix of these two
\* lines (both at height 120); a room higher than 150 px gets the whole
\* label as one rotated line instead.
C2_TwoLinesPlanned ==
    Done => \A k \in RoomIdx :
        IsAdminOffice150(k) =>
            IF room_by_id[k].h > 150
            THEN Rotated(k) /\ LabelElem(svg.rooms, k).text = AdministrativeOffice
            ELSE /\ MultiLine(k)
                 /\ IsPrefix(TextsOnly(RoomTexts(svg.rooms, k)), <<Administrative, Office>>)
                 /\ (room_by_id[k].h = 120 => Len(RoomTexts(svg.rooms, k)) = 2)

C2_Witness ==
    Done /\ \E k \in RoomIdx :
        /\ IsAdminOffice150(k)
        /\ room_by_id[k].h = 120
        /\ TextsOnly(RoomTexts(svg.rooms, k)) = <<Administrative, Office>>

LongestWordPx(k) == MaxWordLen(split(room_by_id[k].label)) * 20

HasWords(k) == split(room_by_id[k].label) # <<>>

\* C3 as stated: a label whose longest word is at most room_width - 40 px
\* wide (20 px per character) is not rotated.
C3_FitsAtMost ==
    Done => \A k \in RoomIdx :
        (HasWords(k) /\ LongestWordPx(k) <= room_by_id[k].w - 40) => ~Rotated(k)

\* C3 amended: a label whose longest word is strictly narrower than
\* room_width - 40 px (20 px per character) is not rotated, whatever the
\* room's height-to-width ratio; at exactly room_width - 40 a room taller
\* than wide gets it rotated.
C3_FitsStrictly ==
    Done => \A k \in RoomIdx :
        /\ (HasWords(k) /\ LongestWordPx(k) < room_by_id[k].w - 40) => ~Rotated(k)
        /\ (HasWords(k) /\ LongestWordPx(k) = room_by_id[k].w - 40
              /\ room_by_id[k].h > room_by_id[k].w) => Rotated(k)

C3_Witness ==
    Done /\ \E k \in RoomIdx :
        /\ HasWords(k)
        /\ LongestWordPx(k) < room_by_id[k].w - 40
        /\ room_by_id[k].h > 2 * room_by_id[k].w
        /\ HasLabelElem(svg.rooms, k) /\ ~Rotated(k)

LegendElems == SelectSeq(svg.title_legend, LAMBDA e : e.kind = "legend")

LegendTypes == [j \in 1..Len(LegendElems) |-> LegendElems[j].type]

\* The types of the rooms list; a room without a type key counts as corridor.
TypesPresent == {Get(rooms[j], "type", "corridor") : j \in 1..Len(rooms)}

CanonicalOrder ==
    <<"lab", "classroom", "office", "library", "lounge", "restroom", "stairs",
      "elevator", "storage", "corridor">>

OrderPos(t) == CHOOSE j \in 1..Len(CanonicalOrder) : CanonicalOrder[j] = t

InCanonicalOrder(ts) ==
    \A a, b \in 1..Len(ts) : a < b => OrderPos(ts[a]) < OrderPos(ts[b])

\* C4 as stated: the legend has exactly one entry per distinct room type of
\* the rooms list, none missing, in the canonical order.
C4_AllTypes ==
    Done => /\ Range(LegendTypes) = TypesPresent
            /\ InCanonicalOrder(LegendTypes)

\* C4 amended: the legend has exactly one entry per distinct room type of
\* the rooms list that is one of the ten known types (a room without a type
\* counting as corridor), in the canonical order; a type outside the ten
\* known ones gets no entry.
C4_KnownTypes ==
    Done => /\ Range(LegendTypes) = TypesPresent \cap Range(CanonicalOrder)
            /\ InCanonicalOrder(LegendTypes)

C4_Witness ==
    /\ Done
    /\ "gym" \in TypesPresent
    /\ Len(rooms) > Cardinality(TypesPresent)
    /\ LegendTypes = <<"lab", "office", "storage", "corridor">>

CeilDiv(n, d) == (n + d - 1) \div d

\* C5: the declared height is trunc(output_width * grid_rows * grid_size / W)
\* plus trunc(output_width * (100 + ceil(n/3) * 65 + 40) / W) for n legend
\* entries.
C5_Height ==
    Done => svg.height =
              Trunc(output_width * GRID_ROWS * GRID_SIZE, GRID_COLS * GRID_SIZE)
              + Trunc(output_width * (100 + CeilDiv(Len(LegendElems), 3) * 65 + 40),
                      GRID_COLS * GRID_SIZE)

RoomIdSet == {rooms[j].id : j \in 1..Len(rooms)}

Dangling == {j \in 1..Len(printers) : printers[j].room \notin RoomIdSet}

NumRects(es) == Cardinality({j \in 1..Len(es) : es[j].kind = "rect"})

\* C7: a printer whose room id matches no room is drawn at (0, 0), no error
\* is raised, and every room and every printer is still rendered.
C7_DanglingPrinter ==
    (include_printers /\ Dangling # {}) =>
        /\ pc # "error"
        /\ Done =>
              /\ \A j \in Dangling : svg.printers[j].x100 = 0 /\ svg.printers[j].y100 = 0
              /\ Len(svg.printers) = Len(printers)
              /\ \A j \in 1..Len(printers) : svg.printers[j].id = printers[j].id
              /\ NumRects(svg.rooms) = Len(rooms)

C7_Witness ==
    /\ Done
    /\ include_printers
    /\ Dangling # {}
    /\ \E j \in 1..Len(printers) : j \notin Dangling /\ svg.printers[j].x100 > 0

\* C8: no grid configuration makes generate_floor_svg raise.
C8_NoGridError == pc # "error"

\* C9: the font of a single-line label is at least 20 and at most 40.
C9_FontRange ==
    Done => \A k \in RoomIdx :
        SingleLine(k) =>
            LabelElem(svg.rooms, k).font >= 20 /\ LabelElem(svg.rooms, k).font <= 40

\* C10 as stated: a single-line label stays inside both 20 px margins:
\* text_y - font/2 >= room_y + 20 and text_y + font/2 <= room_y + room_h - 20.
C10_BothMargins ==
    Done => \A k \in RoomIdx :
        SingleLine(k) =>
            LET e == LabelElem(svg.rooms, k)
                r == room_by_id[k]
            IN  /\ e.y2 - e.font >= 2 * (r.y + 20)
                /\ e.y2 + e.font <= 2 * (r.y + r.h - 20)

\* C10 amended: a single-line label never passes the lower margin
\* (text_y + font/2 <= room_y + room_h - 20) for every room height, and it
\* respects the upper margin (text_y - font/2 >= room_y + 20) whenever the
\* font fits between the margins, room_h - 40 >= font; in a lower room the
\* label is pushed up across the upper margin.
C10_LowerMargin ==
    Done => \A k \in RoomIdx :
        SingleLine(k) =>
            LET e == LabelElem(svg.rooms, k)
                r == room_by_id[k]
            IN  /\ e.y2 + e.font <= 2 * (r.y + r.h - 20)
                /\ (r.h - 40 >= e.font) => e.y2 - e.font >= 2 * (r.y + 20)
                /\ (r.h - 40 < e.font) => e.y2 - e.font < 2 * (r.y + 20)

C10_Witness ==
    Done /\ \E k \in RoomIdx :
        /\ SingleLine(k)
        /\ room_by_id[k].h > 0
        /\ room_by_id[k].h - 40 < LabelElem(svg.rooms, k).font
        /\ LabelElem(svg.rooms, k).y2 + LabelElem(svg.rooms, k).font
               = 2 * (room_by_id[k].y + room_by_id[k].h - 20)

\* C11: every room with a non-empty label is drawn with at least one text
\* element: a label is never dropped entirely from the output.
C11_LabelShown ==
    Done => \A k \in RoomIdx :
        room_by_id[k].label # <<>> => RoomTexts(svg.rooms, k) # <<>>

\* The room whose label element is the last one appended, when that element
\* is a multi-line group: lines, font_size and line_height are then the ones
\* of that room.
LastIsMultiLine ==
    /\ pc \in {"rooms", "printers", "title", "compose", "done"}
    /\ room_elems # <<>>
    /\ room_elems[Len(room_elems)].kind = "g"

LastRoom == room_by_id[NumRects(room_elems)]

RECURSIVE Flatten(_)
Flatten(ls) == IF ls = <<>> THEN <<>> ELSE Head(ls) \o Flatten(Tail(ls))

\* Estimated width of words a..b written on one line, 20 px per character.
RECURSIVE LinePx(_, _, _)
LinePx(words, a, b) ==
    IF a > b THEN 0
    ELSE IF a = b THEN 20 * Len(words[a])
    ELSE 20 * (Len(words[a]) + 1) + LinePx(words, a + 1, b)

\* The lines obtained by cutting words after the positions of cuts.
CutAt(words, cuts) ==
    [j \in 1..(Len(cuts) - 1) |-> SubSeq(words, cuts[j] + 1, cuts[j + 1])]

\* C12: in the multi-line layout the words of the label are partitioned in
\* order, none lost or duplicated, into 2 to 4 non-empty planned lines: one
\* word per line for 2 and 3 words; for 4 words two pairs when both pairs
\* fit in room_width - 80, else 1+2+1; for 5 or 6 words two halves cut at
\* floor(k/2) when both fit, else three lines cut at floor(k/3) and
\* 2*floor(k/3); for more than 6 words four lines cut at multiples of
\* floor(k/4).
C12_PlannedLines ==
    LastIsMultiLine =>
        LET words == split(LastRoom.label)
            k == Len(words)
            aw == LastRoom.w - 80
        IN  /\ Flatten(lines) = words
            /\ Len(lines) >= 2 /\ Len(lines) <= 4
            /\ \A j \in 1..Len(lines) : lines[j] # <<>>
            /\ k \in {2, 3} => lines = CutAt(words, [j \in 1..(k + 1) |-> j - 1])
            /\ k = 4 =>
                  lines = IF LinePx(words, 1, 2) <= aw /\ LinePx(words, 3, 4) <= aw
                          THEN CutAt(words, <<0, 2, 4>>)
                          ELSE CutAt(words, <<0, 1, 3, 4>>)
            /\ k \in {5, 6} =>
                  lines = IF /\ LinePx(words, 1, k \div 2) <= aw
                             /\ LinePx(words, (k \div 2) + 1, k) <= aw
                          THEN CutAt(words, <<0, k \div 2, k>>)
                          ELSE CutAt(words, <<0, k \div 3, 2 * (k \div 3), k>>)
            /\ k > 6 =>
                  lines = CutAt(words, <<0, k \div 4, 2 * (k \div 4), 3 * (k \div 4), k>>)

C12_Witness ==
    /\ Done
    /\ LastIsMultiLine
    /\ Len(split(LastRoom.label)) = 4
    /\ Len(lines) = 3
    /\ Len(lines[2]) = 2

\* C13: in the multi-line layout the font is 40 with line height 45 unless
\* (lines - 1) * 45 + 40 exceeds room_height - 40; then the font is
\* max(24, trunc((room_height - 40 - (lines - 1) * 45) / lines)) and the line
\* height is font + 5.  The font is between 24 and 40, and the emitted lines
\* carry that font and are one line height apart.
C13_MultiLineFont ==
    LastIsMultiLine =>
        LET n == Len(lines)
            h == LastRoom.h
            g == room_elems[Len(room_elems)].lines
        IN  /\ IF (n - 1) * 45 + 40 > h - 40
               THEN /\ font_size = Max(24, Trunc(h - 40 - (n - 1) * 45, n))
                    /\ line_height = font_size + 5
               ELSE font_size = 40 /\ line_height = 45
            /\ font_size >= 24 /\ font_size <= 40
            /\ \A j \in 1..Len(g) : g[j].font = font_size
            /\ \A j \in 1..(Len(g) - 1) : g[j + 1].y2 - g[j].y2 = 2 * line_height

C13_Witness ==
    /\ Done
    /\ LastIsMultiLine
    /\ font_size = 24
    /\ line_height = 29
    /\ Len(room_elems[Len(room_elems)].lines) = 2

\* The room data of the printer's room, for a printer that is not dangling.
RoomOf(p) == room_by_id[CHOOSE k \in RoomIdx : room_by_id[k].id = p.room]

\* C14: with printers enabled, each printer whose room exists is drawn once,
\* centred at (room_x + rx * room_w, room_y + ry * room_h), where rx and ry
\* are grid_rx and grid_ry in hundredths, 50 only when the field is absent
\* (an explicit 0 stays 0); the body starts 25 px left of and above that
\* point and the caption is 45 px below it.
C14_PrinterPlacement ==
    (Done /\ include_printers) =>
        /\ Len(svg.printers) = Len(printers)
        /\ \A j \in 1..Len(printers) : j \notin Dangling =>
              LET p == printers[j]
                  e == svg.printers[j]
                  rx == IF "grid_rx" \in DOMAIN p THEN p.grid_rx ELSE 50
                  ry == IF "grid_ry" \in DOMAIN p THEN p.grid_ry ELSE 50
              IN  /\ e.id = p.id
                  /\ e.x100 = 100 * RoomOf(p).x + rx * RoomOf(p).w
                  /\ e.y100 = 100 * RoomOf(p).y + ry * RoomOf(p).h
                  /\ e.body_x100 = e.x100 - 2500
                  /\ e.body_y100 = e.y100 - 2500
                  /\ e.caption_y100 = e.y100 + 4500

C14_Witness ==
    /\ Done
    /\ include_printers
    /\ \E j \in 1..Len(printers) :
          /\ j \notin Dangling
          /\ "grid_rx" \in DOMAIN printers[j] /\ printers[j].grid_rx = 0
          /\ "grid_ry" \notin DOMAIN printers[j]
          /\ svg.printers[j].x100 = 100 * RoomOf(printers[j]).x
          /\ svg.printers[j].y100 > 100 * RoomOf(printers[j]).y

Titles == {j \in 1..Len(svg.title_legend) : svg.title_legend[j].kind = "title"}

\* C15: whenever the building name is non-empty, for every integer floor
\* number, the document holds exactly one title text, centred below the
\* diagram at x = W/2 (kept times 6), y = H + 50.
C15_TitlePresent ==
    (Done /\ building_name # <<>>) =>
        /\ Cardinality(Titles) = 1
        /\ \A j \in Titles :
              /\ svg.title_legend[j].x6 = 3 * W
              /\ svg.title_legend[j].y = H + 50

EnglishSuffix(n) ==
    IF n % 100 \in {11, 12, 13} THEN <<"t", "h">>
    ELSE IF n % 10 = 1 THEN <<"s", "t">>
    ELSE IF n % 10 = 2 THEN <<"n", "d">>
    ELSE IF n % 10 = 3 THEN <<"r", "d">>
    ELSE <<"t", "h">>

\* C16: for every floor number n >= 1 the title reads "<building name> -
\* <n><suffix> Floor" with the English suffix: th when n mod 100 is 11, 12
\* or 13, otherwise st, nd, rd for last digit 1, 2, 3 and th for the rest.
C16_Ordinal ==
    (Done /\ building_name # <<>> /\ floor_number >= 1) =>
        /\ Titles # {}
        /\ \A j \in Titles :
              svg.title_legend[j].text =
                  escape(building_name \o <<" ", "-", " ">> \o Digits(floor_number)
                         \o EnglishSuffix(floor_number) \o <<" ", "F", "l", "o", "o", "r">>)

C16_Witness ==
    /\ Done
    /\ floor_number = 112
    /\ \E j \in Titles :
          SubSeq(svg.title_legend[j].text, Len(svg.title_legend[j].text) - 10,
                 Len(svg.title_legend[j].text))
              = <<"1", "1", "2", "t", "h", " ", "F", "l", "o", "o", "r">>

LightFills == {ROOM_COLORS["corridor"], ROOM_COLORS["lounge"], "#FFFFFF"}

\* C17: the text of a label is dark (#1a1a1a) exactly when the room is drawn
\* with a light fill (corridor, lounge, or the white fallback of an unknown
\* type) and white when the fill is dark.
C17_TextColour ==
    Done => \A k \in RoomIdx :
        \A j \in 1..Len(RoomTexts(svg.rooms, k)) :
            RoomTexts(svg.rooms, k)[j].fill =
                IF svg.rooms[RectIdx(svg.rooms, k)].fill \in LightFills
                THEN "#1a1a1a" ELSE "white"

PositiveGrid == GRID_SIZE > 0 /\ GRID_COLS > 0 /\ GRID_ROWS > 0

\* C18: with a positive grid no error is raised, whatever the rooms' sizes
\* (zero width or height included) and labels, and the returned document
\* holds, for every room of the input, its filled rectangle at the room's
\* grid position and size times the cell size.
C18_DegenerateRooms ==
    PositiveGrid =>
        /\ pc # "error"
        /\ Done =>
              /\ svg.status = "ok"
              /\ NumRects(svg.rooms) = Len(rooms)
              /\ \A k \in 1..Len(rooms) :
                    LET e == svg.rooms[RectIdx(svg.rooms, k)]
                    IN  /\ e.x2 = 2 * rooms[k].grid_x * GRID_SIZE
                        /\ e.y2 = 2 * rooms[k].grid_y * GRID_SIZE
                        /\ e.w = rooms[k].grid_w * GRID_SIZE
                        /\ e.h = rooms[k].grid_h * GRID_SIZE
                        /\ e.fill = Get(ROOM_COLORS, Get(rooms[k], "type", "corridor"),
                                        "#FFFFFF")

C18_Witness ==
    /\ Done
    /\ PositiveGrid
    /\ Len(rooms) = 1
    /\ rooms[1].grid_w = 0
    /\ rooms[1].grid_h > 0
    /\ Len(split(rooms[1].label)) > 6
    /\ NumRects(svg.rooms) = 1

\* C19: the declared height of the document is proportional to its viewBox,
\* trunc(output_width * viewBox_height / viewBox_width), and equals the
\* raster height that svg_to_png derives for the same target width; stated
\* here for positive grids only.
C19_ProportionalHeight ==
    (Done /\ PositiveGrid) =>
        /\ svg.viewBox_w = W /\ svg.viewBox_h = H + TITLE_HEIGHT + LegendHeight(Len(sorted_types))
        /\ svg.height = Trunc(output_width * svg.viewBox_h, svg.viewBox_w)
        /\ png_pc \in {"playwright", "selenium", "returned"} => exact_height = svg.height

\* C20: svg_to_png never raises; it returns True only after a backend ran
\* without error and left a file of more than 100 bytes, Playwright is
\* tried first and Selenium only after Playwright did not succeed, and it
\* returns False when both backends are missing or fail.
C20_NeverRaises ==
    /\ png_pc # "raised"
    /\ result = "True" =>
          /\ attempts # <<>>
          /\ attempts[Len(attempts)][2] = "ran"
          /\ output_file > 100
    /\ attempts # <<>> => attempts[1][1] = "playwright"
    /\ \A j \in 1..Len(attempts) : attempts[j][1] = "selenium" => j = 2
    /\ png_pc = "returned" =>
          /\ result \in {"True", "False"}
          /\ (\A j \in 1..Len(attempts) : attempts[j][2] # "ran") => result = "False"

\* C21: every labelled room gets exactly one layout: rotated when
\* 20 * (longest word) >= room_w - 40 and room_h > room_w; otherwise
\* multi-line when 20 * len(label) > room_w - 80 and the label has more than
\* one word; otherwise single-line.  A rotated label is one unwrapped 40 px
\* text holding the whole label.
C21_LayoutPrecedence ==
    Done => \A k \in RoomIdx :
        room_by_id[k].label # <<>> =>
            LET r == room_by_id[k]
                rot == LongestWordPx(k) >= r.w - 40 /\ r.h > r.w
                wrap == 20 * Len(r.label) > r.w - 80 /\ Len(split(r.label)) > 1
            IN  /\ HasLabelElem(svg.rooms, k)
                /\ Rotated(k) <=> rot
                /\ MultiLine(k) <=> (~rot /\ wrap)
                /\ SingleLine(k) <=> (~rot /\ ~wrap)
                /\ Rotated(k) =>
                      /\ LabelElem(svg.rooms, k).font = 40
                      /\ LabelElem(svg.rooms, k).text = escape(r.label)

C21_Witness ==
    Done /\ \E k \in RoomIdx :
        /\ Len(split(room_by_id[k].label)) > 1
        /\ 20 * Len(room_by_id[k].label) > room_by_id[k].w - 80
        /\ room_by_id[k].w > 0
        /\ Rotated(k)

\* C22: in the multi-line layout the emitted lines are a prefix, in order,
\* of the planned lines, and each emitted line's vertical extent
\* [y_pos - font/2, y_pos + font/2] lies within
\* [room_y + 20, room_y + room_h - 20] (coordinates doubled).
C22_EmittedPrefix ==
    LastIsMultiLine =>
        LET g == room_elems[Len(room_elems)].lines
            r == LastRoom
        IN  /\ IsPrefix(TextsOnly(g), [j \in 1..Len(lines) |-> escape(join(lines[j]))])
            /\ \A j \in 1..Len(g) :
                  /\ g[j].y2 - g[j].font >= 2 * (r.y + 20)
                  /\ g[j].y2 + g[j].font <= 2 * (r.y + r.h - 20)

C22_Witness ==
    /\ Done
    /\ LastIsMultiLine
    /\ Len(room_elems[Len(room_elems)].lines) >= 1
    /\ Len(room_elems[Len(room_elems)].lines) < Len(lines)
    /\ LastRoom.y > 0

StatementsOf(table) == SelectSeq(sql_statements, LAMBDA st : st.table = table)

\* C23: the SQL literal emitted for a room's name, read back by SQL
\* quote-doubling rules, is the room_name generated for that room (the
\* k-th room row is row ((k - 1) mod 1000) + 1 of room statement
\* ((k - 1) div 1000) + 1).
C23_NameRoundTrip ==
    sql_pc = "sql_done" =>
        \A k \in 1..n_rooms :
            LET st == StatementsOf("room")[((k - 1) \div BULK_INSERT_SIZE) + 1]
                row == st.values[((k - 1) % BULK_INSERT_SIZE) + 1]
            IN  /\ SqlDecode(row[1]) = Uuid(k)
                /\ SqlDecode(row[2]) = RoomName(k)

\* The formatted rows of a list of statements, in order.
RECURSIVE RowsOf(_)
RowsOf(sts) == IF sts = <<>> THEN <<>> ELSE Head(sts).values \o RowsOf(Tail(sts))

\* C26: a BulkInsertHelper loses, duplicates and reorders nothing: the rows
\* of the statements already returned, of the statements still held and of
\* the buffer are, in this order, the rows added so far; no statement has
\* more than BULK_INSERT_SIZE rows; the buffer holds fewer than
\* BULK_INSERT_SIZE rows after every add_row; after get_statements every
\* added row is in the returned statements, and a second get_statements
\* right after returns no statement.
C26_NothingLost ==
    bulk_pc # "idle" =>
        /\ Len(helper.rows) < BULK_INSERT_SIZE
        /\ RowsOf(IF got = <<>> THEN <<>> ELSE got[1]) \o RowsOf(helper.statements)
               \o [j \in 1..Len(helper.rows) |-> FormatRow(helper.rows[j])]
             = [k \in 1..added |-> <<FormatValue(Uuid(k))>>]
        /\ \A j \in 1..Len(helper.statements) :
              /\ Len(helper.statements[j].values) <= BULK_INSERT_SIZE
              /\ Len(helper.statements[j].values) >= 1
        /\ \A g \in 1..Len(got) : \A j \in 1..Len(got[g]) :
              /\ Len(got[g][j].values) <= BULK_INSERT_SIZE
              /\ Len(got[g][j].values) >= 1
        /\ bulk_pc \in {"collected", "collected twice"} =>
              /\ helper.rows = <<>> /\ helper.statements = <<>>
              /\ Len(RowsOf(got[1])) = added
        /\ bulk_pc = "collected twice" => got[2] = <<>>

C26_Witness ==
    /\ bulk_pc = "collected twice"
    /\ added > BULK_INSERT_SIZE
    /\ Len(got[1]) = 2
    /\ Len(got[1][1].values) = BULK_INSERT_SIZE
    /\ Len(got[1][2].values) = added - BULK_INSERT_SIZE

TableRank(t) == CASE t = "floor" -> 1 [] t = "room" -> 2 [] OTHER -> 3

\* C27: in the statement sequence every INSERT into floor precedes every
\* INSERT into room, and every INSERT into room precedes every INSERT into
\* printer_physical; at the end every row of the three tables is in it.
C27_TableOrder ==
    /\ \A a \in 1..Len(sql_statements) : \A b \in (a + 1)..Len(sql_statements) :
          TableRank(sql_statements[a].table) <= TableRank(sql_statements[b].table)
    /\ sql_pc = "sql_done" =>
          /\ Len(RowsOf(StatementsOf("floor"))) = n_floors
          /\ Len(RowsOf(StatementsOf("room"))) = n_rooms
          /\ Len(RowsOf(StatementsOf("printer_physical"))) = n_printers

C27_Witness ==
    /\ sql_pc = "sql_done"
    /\ Len(StatementsOf("floor")) >= 1
    /\ Len(StatementsOf("room")) >= 2
    /\ Len(StatementsOf("printer_physical")) >= 1

\* The restroom filter of the diagram call has run.
Filtered == diag_pc # "first call" /\ SvgWidth(template) # 0

KindedRestroom(room) ==
    Get(room, "type", "") = "restroom" /\ (is_mens(room) \/ is_womens(room))

MensRestroom(room) == Get(room, "type", "") = "restroom" /\ is_mens(room)

WomensRestroom(room) == Get(room, "type", "") = "restroom" /\ is_womens(room)

Unkinded(room) == ~KindedRestroom(room)

\* C25: after the restroom filter at most one remaining restroom is a men's
\* (by id or label) and at most one a women's, the first of each kind in
\* template order is among the rooms kept, and the rooms that are no
\* restroom of either kind are all kept, in their order.
C25_RestroomFilter ==
    Filtered =>
        LET rs == Get(template, "rooms", <<>>)
            mens == {j \in 1..Len(rs) : MensRestroom(rs[j])}
            womens == {j \in 1..Len(rs) : WomensRestroom(rs[j])}
        IN  /\ Cardinality({j \in 1..Len(filtered_rooms) : MensRestroom(filtered_rooms[j])}) <= 1
            /\ Cardinality({j \in 1..Len(filtered_rooms) : WomensRestroom(filtered_rooms[j])}) <= 1
            /\ mens # {} =>
                  rs[CHOOSE j \in mens : \A k \in mens : j <= k] \in Range(filtered_rooms)
            /\ womens # {} =>
                  rs[CHOOSE j \in womens : \A k \in womens : j <= k] \in Range(filtered_rooms)
            /\ SelectSeq(filtered_rooms, Unkinded) = SelectSeq(rs, Unkinded)

\* C24: the pixel coordinate stored for a printer that has both fractions
\* is the point where the diagram shows it in the same room, scaled by
\* OUTPUT_WIDTH / W and truncated.
C24_PixelCoordinate ==
    (diag_pc = "diag_done" /\ pc = "done") =>
        \A k \in 1..Len(pixel_coordinate) :
            LET p == pixel_coordinate[k].printer_spec
                c == pixel_coordinate[k].pixel_coordinate
            IN  (/\ c # <<>>
                 /\ {"grid_rx", "grid_ry"} \subseteq DOMAIN p
                 /\ RoomsWithId(room_by_id, p.room) # {}) =>
                    \A e \in Range(svg.printers) :
                        e.id = p.id =>
                            /\ c[1].pixel[1] = Trunc(e.x100 * OUTPUT_WIDTH, 100 * W)
                            /\ c[1].pixel[2] = Trunc(e.y100 * OUTPUT_WIDTH, 100 * W)

\* The calls that reach the database when the first m statements were sent
\* and then the calls of tail were made.
DriverCalls(m, tail) ==
    <<<<"connect">>>> \o [k \in 1..m |-> <<"execute", k>>] \o tail

Closing == <<<<"cursor.close">>, <<"conn.close">>>>

\* The calls made so far are the statements in file order, failures
\* included; when no exception leaves the loop all of them are sent and one
\* commit follows, with success = False exactly when a statement failed; a
\* rollback is made only for an exception of the loop or of the commit.
ExecuteCommitClose ==
    LET n == Len(statements)
        m == results_summary.statements_executed
    IN  /\ driver # <<>> => \E t \in {<<>>, <<<<"commit">>>>, <<<<"rollback">>>>,
                                       <<<<"commit">>, <<"rollback">>>>} :
                                \/ driver = DriverCalls(m, t)
                                \/ driver = DriverCalls(m, t \o Closing)
        /\ (exec_pc \in {"returned", "raised"} /\ driver # <<>>) =>
              /\ ~cursor_open /\ ~conn_open
              /\ exception = "none" =>
                    /\ driver = DriverCalls(n, <<<<"commit">>>> \o Closing)
                    /\ results_summary.statements_succeeded
                           + results_summary.statements_failed = n
                    /\ results_summary.statements_failed
                           = Cardinality({k \in 1..n : statements[k] = "bad"})
                    /\ results_summary.success = (results_summary.statements_failed = 0)
              /\ exception = "print" => driver = DriverCalls(m, <<<<"rollback">>>> \o Closing)
              /\ exception = "commit" =>
                    driver = DriverCalls(n, <<<<"commit">>, <<"rollback">>>> \o Closing)
              /\ exception # "none" =>
                    \E k \in 1..Len(driver) : driver[k] = <<"rollback">>

RECURSIVE Strategies(_, _)
Strategies(content, k) ==
    IF k <= 1 THEN content ELSE fix_diagram_layout(Strategies(content, k - 1), k)

Fits(attempt) ==
    /\ attempt.image_data # <<>>
    /\ attempt.image_data[1] <= 2000
    /\ attempt.image_data[2] <= 3000

\* At most MAX_ITERATIONS renders; the k-th renders the file after the
\* strategies 2..k, which is the file on disk; the loop goes on only while
\* no render fitted, True is returned at the first that fits and False
\* after five that did not.
FixAttempts ==
    LET n == Len(rendered)
    IN  /\ n <= 5
        /\ \A k \in 1..n : rendered[k].puml_content = Strategies(original, k)
        /\ puml_file = Strategies(original, n)
        /\ \A k \in 1..(n - 1) : ~Fits(rendered[k])
        /\ fix_pc = "loop" => (fix_result = "none" /\ \A k \in 1..n : ~Fits(rendered[k]))
        /\ fix_pc = "returned" =>
              /\ n >= 1
              /\ fix_result = IF Fits(rendered[n]) THEN "True" ELSE "False"
              /\ fix_result = "False" => n = 5

RECURSIVE Reaches(_, _, _)
Reaches(a, b, n) ==
    /\ n > 0
    /\ \E k \in 1..Len(relationships) :
          /\ relationships[k][1] = a
          /\ relationships[k][2] # a
          /\ relationships[k][2] = b \/ Reaches(relationships[k][2], b, n - 1)

Acyclic == \A t \in TableNames : ~Reaches(t, t, MaxTables)

PositionOf(t) == CHOOSE k \in 1..Len(emitted) : emitted[k] = t

\* In an acyclic schema every referenced table has a smaller level than a
\* different table that references it and its class comes first in the
\* text.
ParentsOnTop ==
    (viz_pc \in {"levels", "emitted"} /\ Acyclic) =>
        \A k \in 1..Len(relationships) :
            LET a == relationships[k][1]
                b == relationships[k][2]
            IN  (a # b /\ b \in Range(tables)) =>
                    /\ levels[b] < levels[a]
                    /\ viz_pc = "emitted" => PositionOf(b) < PositionOf(a)

\* C30: determine_table_levels gives every referenced table of an acyclic
\* schema a smaller level than the tables that reference it, level 0 being
\* emitted first, and ends for every schema, cyclic or self-referencing
\* ones included.
C30_ParentsOnTop ==
    /\ []ParentsOnTop
    /\ <>(viz_pc = "emitted")

====
